---- MODULE Spec2Model ----
(***************************************************************************)
(* Connection routing of the 3D diagram widget                             *)
(* (src/asset_setups/integration_v2/diagram3d.js): ConnectionPointCalculator, *)
(* BezierCurveGenerator and ConnectionManager.                             *)
(*                                                                         *)
(* Numbers are fixed point: one scene unit is Unit integer steps, so 0.1   *)
(* is Unit \div 10.  Products with the decimal factors of the code are     *)
(* taken in integers and divided last, rounding toward minus infinity.     *)
(***************************************************************************)
EXTENDS Integers, Sequences, FiniteSets, TLC

VARIABLES
    connections,          \* ConnectionManager.connections: stored connection records
    curves,               \* ConnectionManager.curves: every curve pushed since the last clear
    connectionGroup,      \* connectionGroup: [visible, children]; children are curve/arrow visuals
    animationGroup,       \* animationGroup: [visible, children]; children are particle meshes
    animationParticles,   \* ConnectionManager.animationParticles: particle meshes with userData
    animationEnabled,     \* ConnectionManager.options.animationEnabled
    lastOp,               \* history: the last operation called, with its arguments and result
    ticks,                \* history: calls of updateAnimations so far
    spawn,                \* history: the draws of the last createAnimationParticle, and when
    resolved,             \* history: the last call of the calculator or of the curve
                          \* generator, with its arguments and what it returned
    meshes,               \* the diagram's meshes: position, material and glowEffect of each
    interaction,          \* the diagram's InteractionManager: hoveredComponent,
                          \* selectedComponent, originalMaterials, targetScales,
                          \* materialTransitions
    viewer                \* an AxonometricViewer: hoveredComponent, selectedComponent,
                          \* its components' material, targetScales and targetPositions,
                          \* and the component under this.mouse

vars == <<connections, curves, connectionGroup, animationGroup, animationParticles,
          animationEnabled, lastOp, ticks, spawn, resolved, meshes, interaction, viewer>>

(***************************************************************************)
(* Arithmetic                                                              *)
(***************************************************************************)
Unit == 10 * 100

Abs(a) == IF a < 0 THEN -a ELSE a

Max(a, b) == IF a >= b THEN a ELSE b

Min(a, b) == IF a <= b THEN a ELSE b

\* JavaScript's  a || b  on numbers: b when a is 0 or missing (written 0).
OrDefault(a, b) == IF a = 0 THEN b ELSE a

\* a * (num/den) in fixed point
Scale(a, num, den) == (a * num) \div den

Vector3(px, py, pz) == [x |-> px, y |-> py, z |-> pz]

RECURSIVE SqrtBetween(_, _, _)
\* The greatest r in lo..hi with r * r <= n, by bisection
SqrtBetween(n, lo, hi) ==
    IF lo = hi THEN lo
    ELSE LET mid == (lo + hi + 1) \div 2
         IN  IF mid * mid <= n THEN SqrtBetween(n, mid, hi) ELSE SqrtBetween(n, lo, mid - 1)

\* Math.sqrt of a sum of squares of fixed-point numbers, rounded down to a step
\* (46340 is the greatest root within 32-bit integers)
Sqrt(n) == SqrtBetween(n, 0, Min(n, 46340))

(***************************************************************************)
(* Scene elements, as Diagram3D builds them                                *)
(***************************************************************************)
\* Diagram3D.createPlatform: a box mesh; missing sizes fall back to 4 x 0.5 x 4,
\* a missing y to -0.25.
createPlatform(platformData, layerName) ==
    [ position |-> Vector3(platformData.x,
                           OrDefault(platformData.y, -(Unit \div 4)),
                           platformData.z),
      geometry |-> [ type   |-> "BoxGeometry",
                     width  |-> OrDefault(platformData.width, 4 * Unit),
                     height |-> OrDefault(platformData.height, Unit \div 2),
                     depth  |-> OrDefault(platformData.depth, 4 * Unit) ],
      userData |-> [ type |-> "platform", layer |-> layerName, name |-> layerName,
                     hasPlataform |-> FALSE, isDatabaseComponent |-> FALSE ] ]

\* Diagram3D.isDatabaseComponent: the name contains one of the database keywords.
\* Of the component names used here these do.
DatabaseNames == {"AirTable", "Excel", "Database Storage", "Excel Calculator"}

isDatabaseComponent(componentName) == componentName \in DatabaseNames

\* Diagram3D.createComponent.  platformData is the layer's platform (read only when
\* hasPlataform).  The geometry record holds the measured bounding-box sizes: a
\* cylinder of radius 0.6*size and height 1.2*size, or the centred extrusion of a
\* size x size shape by depth size with bevelSize 0.08 and bevelThickness 0.05.
createComponent(compData, layerName, hasPlataform, platformData) ==
    LET size == OrDefault(compData.size, (3 * Unit) \div 2)
        isDb == isDatabaseComponent(compData.name)
        yPos == IF hasPlataform
                THEN OrDefault(platformData.y, -(Unit \div 4))
                     + OrDefault(platformData.height, Unit \div 2) \div 2
                     + size \div 2 + Unit \div 20
                ELSE OrDefault(compData.y, (3 * Unit) \div 4)
    IN  [ position |-> Vector3(compData.x, yPos, compData.z),
          geometry |-> IF isDb
                       THEN [ type   |-> "CylinderGeometry",
                              width  |-> 2 * Scale(size, 6, 10),
                              height |-> Scale(size, 12, 10),
                              depth  |-> 2 * Scale(size, 6, 10) ]
                       ELSE [ type   |-> "ExtrudeGeometry",
                              width  |-> size + 2 * Scale(Unit, 8, 100),
                              height |-> size + 2 * Scale(Unit, 8, 100),
                              depth  |-> size + 2 * Scale(Unit, 5, 100) ],
          userData |-> [ type |-> "component", layer |-> layerName, name |-> compData.name,
                         hasPlataform |-> hasPlataform, isDatabaseComponent |-> isDb ] ]

\* The hospital diagram of demo-configurations.js: three of its platforms, a component
\* on a platform, the standalone hub and a database cylinder.
PlatformData(px, pz, w, d) ==
    [x |-> px, y |-> 0, z |-> pz, width |-> w, height |-> Unit \div 2, depth |-> d]

CompData(n, px, pz) == [name |-> n, x |-> px, y |-> 0, z |-> pz, size |-> 0]

NoPlatform == PlatformData(0, 0, 0, 0)

UserInterfaceData == PlatformData(-6 * Unit, 6 * Unit, 8 * Unit, 4 * Unit)

BusinessLogicData == PlatformData(-6 * Unit, 1 * Unit, 6 * Unit, 3 * Unit)

DatabaseData == PlatformData(4 * Unit, -4 * Unit, 6 * Unit, 3 * Unit)

ElementIds ==
    {"userInterface", "businessLogic", "database", "Pie Chart", "Output Tables", "AirTable"}

Element(id) ==
    CASE id = "userInterface" -> createPlatform(UserInterfaceData, "userInterface")
      [] id = "businessLogic" -> createPlatform(BusinessLogicData, "businessLogic")
      [] id = "database" -> createPlatform(DatabaseData, "database")
      [] id = "Pie Chart" ->
            createComponent(CompData("Pie Chart", -6 * Unit, 7 * Unit), "userInterface",
                            TRUE, UserInterfaceData)
      [] id = "Output Tables" ->
            createComponent(CompData("Output Tables", 4 * Unit, 1 * Unit), "output",
                            FALSE, NoPlatform)
      [] id = "AirTable" ->
            createComponent(CompData("AirTable", 2 * Unit, -4 * Unit), "database",
                            TRUE, DatabaseData)

(***************************************************************************)
(* The meshes as created, and the two classes that handle the mouse        *)
(***************************************************************************)
\* null
NoObject == "null"

\* Diagram3D.createMaterials / createEnhancedMaterial: the Phong material of a
\* layer's platform
createEnhancedMaterial(layerName) ==
    LET colors == CASE layerName = "userInterface" -> <<"0x10b981", "0x047857">>
                    [] layerName = "businessLogic" -> <<"0xf59e0b", "0xd97706">>
                    [] layerName = "output" -> <<"0x8b5cf6", "0x7c3aed">>
                    [] layerName = "database" -> <<"0x06b6d4", "0x0891b2">>
                    [] OTHER -> <<"0x64748b", "0x475569">>
    IN  [ color |-> colors[1], emissive |-> colors[2],
          emissiveIntensity |-> CASE layerName = "database" -> Scale(Unit, 8, 100)
                                  [] layerName = "userInterface" -> Scale(Unit, 6, 100)
                                  [] OTHER -> Scale(Unit, 5, 100),
          shininess |-> CASE layerName = "database" -> 50 * Unit
                          [] layerName = "userInterface" -> 40 * Unit
                          [] OTHER -> 30 * Unit ]

\* Diagram3D.createComponent: the Lambert material of a component, which has no
\* shininess; emissiveIntensity is the library's default 1 where it is not set
MeshLambertMaterial(hasPlataform) ==
    IF hasPlataform
    THEN [color |-> "0x64748b", emissive |-> "0x000000", emissiveIntensity |-> Unit]
    ELSE [color |-> "0x8b5cf6", emissive |-> "0x3b1065",
          emissiveIntensity |-> Scale(Unit, 1, 10)]

\* The material a mesh is created with
MaterialOf(element) ==
    IF element.userData.type = "platform"
    THEN createEnhancedMaterial(element.userData.layer)
    ELSE MeshLambertMaterial(element.userData.hasPlataform)

\* InteractionManager.setupMaterials
hoverMaterial ==
    [ color |-> "0x3b82f6", emissive |-> "0x1e40af",
      emissiveIntensity |-> Scale(Unit, 4, 10), shininess |-> 60 * Unit ]

selectedMaterial ==
    [ color |-> "0x10b981", emissive |-> "0x059669",
      emissiveIntensity |-> Scale(Unit, 6, 10), shininess |-> 80 * Unit ]

\* A mesh whose material is the very object registered in originalMaterials: what
\* is written to one is read from the other
Registered == [registered |-> TRUE]

NoTransition == [type |-> "none"]

\* The meshes after createElements
CreatedMeshes ==
    [id \in ElementIds |->
        [position |-> Element(id).position, material |-> Registered, glowEffect |-> FALSE]]

\* The InteractionManager after its constructor and registerComponent /
\* registerPlatform for every mesh
InteractionManager ==
    [ hoveredComponent |-> NoObject,
      selectedComponent |-> NoObject,
      originalMaterials |-> [id \in ElementIds |-> MaterialOf(Element(id))],
      targetScales |-> [id \in ElementIds |-> Vector3(Unit, Unit, Unit)],
      materialTransitions |-> [id \in ElementIds |-> NoTransition] ]

\* The components of the viewer's default architecture that the pointer visits
ViewerComponents ==
    {"Input Tables", "Pie Chart", "Excel Calculator", "Output Tables", "AirTable"}

\* The AxonometricViewer after its constructor and loadArchitecture: every
\* component shows its original material at its original height
AxonometricViewer ==
    [ hoveredComponent |-> NoObject,
      selectedComponent |-> NoObject,
      mouse |-> NoObject,
      material |-> [c \in ViewerComponents |-> "componentMaterial"],
      targetScales |-> [c \in ViewerComponents |-> Vector3(Unit, Unit, Unit)],
      targetPositions |-> [c \in ViewerComponents |-> (3 * Unit) \div 4] ]

(***************************************************************************)
(* ConnectionPointCalculator                                               *)
(***************************************************************************)
\* The coordinate along the face taken from the target without the clamp
getPlatformConnectionPointNoClamp(platform, targetElement) ==
    LET platformPos == platform.position
        targetPos == targetElement.position
        width == platform.geometry.width
        depth == platform.geometry.depth
        height == platform.geometry.height
        dx == targetPos.x - platformPos.x
        dz == targetPos.z - platformPos.z
    IN  IF Abs(dx) > Abs(dz)
        THEN Vector3(platformPos.x + (IF dx > 0 THEN width \div 2 ELSE -(width \div 2)),
                     platformPos.y + height \div 2 + Unit \div 10,
                     platformPos.z + dz)
        ELSE Vector3(platformPos.x + dx,
                     platformPos.y + height \div 2 + Unit \div 10,
                     platformPos.z + (IF dz > 0 THEN depth \div 2 ELSE -(depth \div 2)))

\* The x face taken when |dz| is the greater offset
getPlatformConnectionPointSwapped(platform, targetElement) ==
    LET platformPos == platform.position
        targetPos == targetElement.position
        width == platform.geometry.width
        depth == platform.geometry.depth
        height == platform.geometry.height
        dx == targetPos.x - platformPos.x
        dz == targetPos.z - platformPos.z
    IN  IF Abs(dz) > Abs(dx)
        THEN Vector3(platformPos.x + (IF dx > 0 THEN width \div 2 ELSE -(width \div 2)),
                     platformPos.y + height \div 2 + Unit \div 10,
                     platformPos.z + Max(-(depth \div 2), Min(depth \div 2, dz)))
        ELSE Vector3(platformPos.x + Max(-(width \div 2), Min(width \div 2, dx)),
                     platformPos.y + height \div 2 + Unit \div 10,
                     platformPos.z + (IF dz > 0 THEN depth \div 2 ELSE -(depth \div 2)))

getPlatformConnectionPoint(platform, targetElement) ==
    LET platformPos == platform.position
        targetPos == targetElement.position
        width == platform.geometry.width
        depth == platform.geometry.depth
        height == platform.geometry.height
        dx == targetPos.x - platformPos.x
        dz == targetPos.z - platformPos.z
        absX == Abs(dx)
        absZ == Abs(dz)
        connectionX == IF absX > absZ
                       THEN platformPos.x + (IF dx > 0 THEN width \div 2 ELSE -(width \div 2))
                       ELSE platformPos.x + Max(-(width \div 2), Min(width \div 2, dx))
        connectionZ == IF absX > absZ
                       THEN platformPos.z + Max(-(depth \div 2), Min(depth \div 2, dz))
                       ELSE platformPos.z + (IF dz > 0 THEN depth \div 2 ELSE -(depth \div 2))
        connectionY == platformPos.y + height \div 2 + Unit \div 10
    IN  Vector3(connectionX, connectionY, connectionZ)

\* The nominal half size 0.75 on every axis in place of the measured extents
getStandaloneCubeConnectionPointNominal(cube, targetElement) ==
    LET cubePos == cube.position
        targetPos == targetElement.position
        halfSize == ((3 * Unit) \div 2) \div 2
        dx == targetPos.x - cubePos.x
        dy == targetPos.y - cubePos.y
        dz == targetPos.z - cubePos.z
    IN  IF Abs(dx) >= Abs(dy) /\ Abs(dx) >= Abs(dz)
        THEN Vector3(cubePos.x + (IF dx > 0 THEN halfSize ELSE -halfSize), cubePos.y, cubePos.z)
        ELSE IF Abs(dy) >= Abs(dx) /\ Abs(dy) >= Abs(dz)
        THEN Vector3(cubePos.x, cubePos.y + (IF dy > 0 THEN halfSize ELSE -halfSize), cubePos.z)
        ELSE Vector3(cubePos.x, cubePos.y, cubePos.z + (IF dz > 0 THEN halfSize ELSE -halfSize))

getStandaloneCubeConnectionPoint(cube, targetElement) ==
    LET cubePos == cube.position
        targetPos == targetElement.position
        halfWidth == cube.geometry.width \div 2
        halfHeight == cube.geometry.height \div 2
        halfDepth == cube.geometry.depth \div 2
        dx == targetPos.x - cubePos.x
        dy == targetPos.y - cubePos.y
        dz == targetPos.z - cubePos.z
        absX == Abs(dx)
        absY == Abs(dy)
        absZ == Abs(dz)
    IN  IF absX >= absY /\ absX >= absZ
        THEN Vector3(cubePos.x + (IF dx > 0 THEN halfWidth ELSE -halfWidth),
                     cubePos.y, cubePos.z)
        ELSE IF absY >= absX /\ absY >= absZ
        THEN Vector3(cubePos.x,
                     cubePos.y + (IF dy > 0 THEN halfHeight ELSE -halfHeight),
                     cubePos.z)
        ELSE Vector3(cubePos.x, cubePos.y,
                     cubePos.z + (IF dz > 0 THEN halfDepth ELSE -halfDepth))

\* A vector with a coordinate that is not a number (0 / 0)
NaNVector == [x |-> 0, y |-> 0, z |-> 0, nan |-> TRUE]

\* The side rule without the test horizontalDistance > 0: 0 / 0 at distance zero
getCylinderConnectionPointUnguarded(cylinder, targetElement) ==
    LET cylinderPos == cylinder.position
        targetPos == targetElement.position
        radius == (9 * Unit) \div 10
        height == (18 * Unit) \div 10
        dx == targetPos.x - cylinderPos.x
        dz == targetPos.z - cylinderPos.z
        dy == targetPos.y - cylinderPos.y
        horizontalDistance == Sqrt(dx * dx + dz * dz)
    IN  IF Abs(dy) > horizontalDistance
        THEN Vector3(cylinderPos.x,
                     cylinderPos.y + (IF dy > 0 THEN height \div 2 ELSE -(height \div 2)),
                     cylinderPos.z)
        ELSE IF horizontalDistance > 0
        THEN Vector3(cylinderPos.x + (dx * radius) \div horizontalDistance,
                     cylinderPos.y,
                     cylinderPos.z + (dz * radius) \div horizontalDistance)
        ELSE NaNVector

\* radius and height are the literals 0.9 and 1.8 of the code, whatever the mesh's size.
getCylinderConnectionPoint(cylinder, targetElement) ==
    LET cylinderPos == cylinder.position
        targetPos == targetElement.position
        radius == (9 * Unit) \div 10
        height == (18 * Unit) \div 10
        dx == targetPos.x - cylinderPos.x
        dz == targetPos.z - cylinderPos.z
        dy == targetPos.y - cylinderPos.y
        horizontalDistance == Sqrt(dx * dx + dz * dz)
    IN  IF Abs(dy) > horizontalDistance
        THEN Vector3(cylinderPos.x,
                     cylinderPos.y + (IF dy > 0 THEN height \div 2 ELSE -(height \div 2)),
                     cylinderPos.z)
        ELSE IF horizontalDistance > 0
        THEN Vector3(cylinderPos.x + (dx * radius) \div horizontalDistance,
                     cylinderPos.y,
                     cylinderPos.z + (dz * radius) \div horizontalDistance)
        ELSE cylinderPos

getComponentConnectionPoint(component, targetElement) ==
    LET componentPos == component.position
        targetPos == targetElement.position
        userData == component.userData
        halfSize == ((3 * Unit) \div 2) \div 2
        dx == targetPos.x - componentPos.x
        dy == targetPos.y - componentPos.y
        dz == targetPos.z - componentPos.z
        absX == Abs(dx)
        absY == Abs(dy)
        absZ == Abs(dz)
    IN  IF userData.isDatabaseComponent
        THEN getCylinderConnectionPoint(component, targetElement)
        ELSE IF ~userData.hasPlataform
        THEN getStandaloneCubeConnectionPoint(component, targetElement)
        ELSE IF absX >= absY /\ absX >= absZ
        THEN [componentPos EXCEPT !.x = @ + (IF dx > 0 THEN halfSize ELSE -halfSize)]
        ELSE IF absY >= absX /\ absY >= absZ
        THEN [componentPos EXCEPT !.y = @ + (IF dy > 0 THEN halfSize ELSE -halfSize)]
        ELSE [componentPos EXCEPT !.z = @ + (IF dz > 0 THEN halfSize ELSE -halfSize)]

getNodeConnectionPoint(node, targetElement) == node.position

\* The target's position in place of the element's
getDefaultConnectionPointOfTarget(element, targetElement) == targetElement.position

getDefaultConnectionPoint(element, targetElement) == element.position

\* userData.type of an element; "undefined" when userData has no such key
KindOf(element) ==
    IF "type" \in DOMAIN element.userData THEN element.userData.type ELSE "undefined"

getConnectionPoint(element, targetElement) ==
    CASE KindOf(element) = "platform" ->
            getPlatformConnectionPoint(element, targetElement)
      [] KindOf(element) = "component" ->
            getComponentConnectionPoint(element, targetElement)
      [] KindOf(element) = "node" ->
            getNodeConnectionPoint(element, targetElement)
      [] OTHER -> getDefaultConnectionPoint(element, targetElement)

(***************************************************************************)
(* BezierCurveGenerator.  An options bag is a record holding only the keys *)
(* it sets; a destructuring default applies to a key that is absent.       *)
(***************************************************************************)
Opt(options, key, default) == IF key \in DOMAIN options THEN options[key] ELSE default

CubicBezierCurve3(p0, p1, p2, p3) == [v0 |-> p0, v1 |-> p1, v2 |-> p2, v3 |-> p3]

\* startPoint.distanceTo(endPoint)
distanceTo(a, b) ==
    Sqrt((a.x - b.x) * (a.x - b.x) + (a.y - b.y) * (a.y - b.y) + (a.z - b.z) * (a.z - b.z))

\* The lesser of the two heights in place of the greater
curveHeightLesser(startPoint, endPoint, options) ==
    LET verticalOffset == Opt(options, "verticalOffset", (8 * Unit) \div 10)
        heightDiff == Abs(endPoint.y - startPoint.y)
    IN  Min(verticalOffset, Scale(heightDiff, 3, 10))

\* curveHeight of createArchitecturalCurve
curveHeight(startPoint, endPoint, options) ==
    LET verticalOffset == Opt(options, "verticalOffset", (8 * Unit) \div 10)
        heightDiff == Abs(endPoint.y - startPoint.y)
    IN  Max(verticalOffset, Scale(heightDiff, 3, 10))

\* midPoint of createArchitecturalCurve
midPoint(startPoint, endPoint, options) ==
    Vector3((startPoint.x + endPoint.x) \div 2,
            Max(startPoint.y, endPoint.y) + curveHeight(startPoint, endPoint, options),
            (startPoint.z + endPoint.z) \div 2)

\* The control points at the full height and the full way to midPoint
createArchitecturalCurveThroughMidPoint(startPoint, endPoint, options) ==
    LET midPoint0 == midPoint(startPoint, endPoint, options)
    IN  CubicBezierCurve3(startPoint, midPoint0, midPoint0, endPoint)

createArchitecturalCurve(startPoint, endPoint, options) ==
    LET curveHeight0 == curveHeight(startPoint, endPoint, options)
        midPoint0 == midPoint(startPoint, endPoint, options)
        controlPoint1 == Vector3(startPoint.x + Scale(midPoint0.x - startPoint.x, 6, 10),
                                 startPoint.y + Scale(curveHeight0, 7, 10),
                                 startPoint.z + Scale(midPoint0.z - startPoint.z, 6, 10))
        controlPoint2 == Vector3(endPoint.x + Scale(midPoint0.x - endPoint.x, 6, 10),
                                 endPoint.y + Scale(curveHeight0, 7, 10),
                                 endPoint.z + Scale(midPoint0.z - endPoint.z, 6, 10))
    IN  CubicBezierCurve3(startPoint, controlPoint1, controlPoint2, endPoint)

\* calculateControlPoint1/2: direction is (to - from) normalised (the zero vector
\* stays zero), perpendicular is (-direction.z, 0, direction.x).  direction * k is
\* computed as (to - from) * k / |to - from|.
calculateControlPoint(from, to, verticalOffset, horizontalOffset, distance) ==
    LET len == distanceTo(to, from)
        dirX(k) == IF len = 0 THEN 0 ELSE ((to.x - from.x) * k) \div len
        dirZ(k) == IF len = 0 THEN 0 ELSE ((to.z - from.z) * k) \div len
    IN  Vector3(from.x + dirX(Scale(distance, 3, 10)) - dirZ(horizontalOffset),
                from.y + verticalOffset,
                from.z + dirZ(Scale(distance, 3, 10)) + dirX(horizontalOffset))

calculateControlPoint1(start, end, verticalOffset, horizontalOffset, distance) ==
    calculateControlPoint(start, end, verticalOffset, horizontalOffset, distance)

calculateControlPoint2(start, end, verticalOffset, horizontalOffset, distance) ==
    calculateControlPoint(end, start, verticalOffset, horizontalOffset, distance)

createSmoothCurve(startPoint, endPoint, options) ==
    LET verticalOffset == Opt(options, "verticalOffset", (6 * Unit) \div 10)
        horizontalOffset == Opt(options, "horizontalOffset", (3 * Unit) \div 10)
        distance == distanceTo(startPoint, endPoint)
    IN  CubicBezierCurve3(
            startPoint,
            calculateControlPoint1(startPoint, endPoint, verticalOffset, horizontalOffset, distance),
            calculateControlPoint2(startPoint, endPoint, verticalOffset, horizontalOffset, distance),
            endPoint)

\* The curve begun at its first control point
createSharpCurveFromControl(startPoint, endPoint, options) ==
    LET verticalOffset == Opt(options, "verticalOffset", (4 * Unit) \div 10)
        controlPoint1 == Vector3(startPoint.x + Scale(endPoint.x - startPoint.x, 3, 10),
                                 startPoint.y + verticalOffset,
                                 startPoint.z + Scale(endPoint.z - startPoint.z, 3, 10))
        controlPoint2 == Vector3(startPoint.x + Scale(endPoint.x - startPoint.x, 7, 10),
                                 endPoint.y + verticalOffset,
                                 startPoint.z + Scale(endPoint.z - startPoint.z, 7, 10))
    IN  CubicBezierCurve3(controlPoint1, controlPoint1, controlPoint2, endPoint)

createSharpCurve(startPoint, endPoint, options) ==
    LET verticalOffset == Opt(options, "verticalOffset", (4 * Unit) \div 10)
        controlPoint1 == Vector3(startPoint.x + Scale(endPoint.x - startPoint.x, 3, 10),
                                 startPoint.y + verticalOffset,
                                 startPoint.z + Scale(endPoint.z - startPoint.z, 3, 10))
        controlPoint2 == Vector3(startPoint.x + Scale(endPoint.x - startPoint.x, 7, 10),
                                 endPoint.y + verticalOffset,
                                 startPoint.z + Scale(endPoint.z - startPoint.z, 7, 10))
    IN  CubicBezierCurve3(startPoint, controlPoint1, controlPoint2, endPoint)

createCurve(startPoint, endPoint, options) ==
    LET curveType == Opt(options, "curveType", "architectural")
    IN  CASE curveType = "smooth" -> createSmoothCurve(startPoint, endPoint, options)
          [] curveType = "sharp" -> createSharpCurve(startPoint, endPoint, options)
          [] OTHER -> createArchitecturalCurve(startPoint, endPoint, options)

\* CubicBezierCurve3.getPoint(t) at a whole t, 0 or 1: the cubic Bernstein sum of the
\* four control points
getPoint(curve, t) ==
    LET k == 1 - t
        B(p0, p1, p2, p3) == k * k * k * p0 + 3 * k * k * t * p1 + 3 * k * t * t * p2
                             + t * t * t * p3
    IN  Vector3(B(curve.v0.x, curve.v1.x, curve.v2.x, curve.v3.x),
                B(curve.v0.y, curve.v1.y, curve.v2.y, curve.v3.y),
                B(curve.v0.z, curve.v1.z, curve.v2.z, curve.v3.z))

(***************************************************************************)
(* ConnectionManager                                                       *)
(***************************************************************************)
\* {...a, ...b}
Merge(a, b) == [k \in DOMAIN a \cup DOMAIN b |-> IF k \in DOMAIN b THEN b[k] ELSE a[k]]

\* The options the constructor leaves in this.options that addConnection reads;
\* animationEnabled is the variable of that name.
ManagerOptions == [showArrows |-> FALSE]

\* Math.random().toString(36).substr(2, 9): a string of at most nine digits
RandomSuffixes == {"i", "4fzyo82mv"}

\* Date.now(): the wall clock in milliseconds, which two calls may read the same
ClockReadings == {0, 1}

generateConnectionId(time, suffix) == [t |-> time, r |-> suffix]

NoId == [t |-> -1, r |-> ""]

ConnectionIds == {generateConnectionId(t, r) : t \in ClockReadings, r \in RandomSuffixes}

IdsOf(conns) == {conns[i].id : i \in DOMAIN conns}

\* A new mesh is an object no list holds yet.
NewMesh(particles, group) ==
    CHOOSE m \in 0..(Len(particles) + Len(group.children)) :
        /\ \A i \in DOMAIN particles : particles[i].mesh # m
        /\ \A i \in DOMAIN group.children : group.children[i] # m

\* createCurveVisual and createArrow: what addConnection adds to connectionGroup
ConnectionVisuals(curveOptions, connectionId) ==
    <<[connectionId |-> connectionId, type |-> "curve"]>>
    \o (IF Opt(curveOptions, "showArrows", FALSE) = TRUE
        THEN <<[connectionId |-> connectionId, type |-> "arrow"]>>
        ELSE <<>>)

\* A particle whose speed is the random part alone
createAnimationParticleNoBaseSpeed(mesh, curve, connectionId, draw1, draw2) ==
    [ mesh |-> mesh,
      userData |-> [ connectionId |-> connectionId,
                     curve |-> curve,
                     progress |-> draw1,
                     speed |-> Scale(draw2, 12, 1000),
                     type |-> "particle" ] ]

\* createAnimationParticle: progress = Math.random(), speed = 0.008 + Math.random() * 0.012
createAnimationParticle(mesh, curve, connectionId, draw1, draw2) ==
    [ mesh |-> mesh,
      userData |-> [ connectionId |-> connectionId,
                     curve |-> curve,
                     progress |-> draw1,
                     speed |-> Scale(Unit, 8, 1000) + Scale(draw2, 12, 1000),
                     type |-> "particle" ] ]

\* The element as the calculator finds it: the mesh with the position it has now
Placed(id) == [Element(id) EXCEPT !.position = meshes[id].position]

\* Both points resolved facing the target element
ConnectionEndpointsSameFacing(fromElement, toElement) ==
    [ fromPoint |-> getConnectionPoint(Placed(fromElement), Placed(toElement)),
      toPoint   |-> getConnectionPoint(Placed(toElement), Placed(toElement)) ]

\* The two points addConnection asks the calculator for
ConnectionEndpoints(fromElement, toElement) ==
    [ fromPoint |-> getConnectionPoint(Placed(fromElement), Placed(toElement)),
      toPoint   |-> getConnectionPoint(Placed(toElement), Placed(fromElement)) ]

\* The registry's fields as one record
Registry ==
    [ connections |-> connections, curves |-> curves,
      connectionGroup |-> connectionGroup, animationGroup |-> animationGroup,
      animationParticles |-> animationParticles, animationEnabled |-> animationEnabled ]

\* An addConnection that draws every stored connection anew between its elements
addConnectionToRecomputingAll(registry, fromElement, toElement, options, time, suffix, draw1, draw2) ==
    LET Redrawn(conn) ==
            [conn EXCEPT !.curve =
                createCurve(ConnectionEndpoints(conn.fromElement, conn.toElement).fromPoint,
                            ConnectionEndpoints(conn.fromElement, conn.toElement).toPoint,
                            conn.options)]
        redrawn == [registry EXCEPT
                       !.connections = [i \in DOMAIN @ |-> Redrawn(@[i])]]
        points == ConnectionEndpoints(fromElement, toElement)
        curveOptions == Merge(Merge(ManagerOptions,
                                    [animationEnabled |-> registry.animationEnabled]),
                              options)
        curve == createCurve(points.fromPoint, points.toPoint, curveOptions)
        connection == [ id |-> generateConnectionId(time, suffix),
                        fromElement |-> fromElement,
                        toElement |-> toElement,
                        curve |-> curve,
                        options |-> curveOptions ]
        mesh == NewMesh(registry.animationParticles, registry.animationGroup)
        particle == createAnimationParticle(mesh, curve, connection.id, draw1, draw2)
        stored == [ redrawn EXCEPT
                      !.curves = Append(@, curve),
                      !.connections = Append(@, connection),
                      !.connectionGroup.children =
                          @ \o ConnectionVisuals(curveOptions, connection.id) ]
    IN  IF registry.animationEnabled
        THEN [ stored EXCEPT !.animationParticles = Append(@, particle),
                             !.animationGroup.children = Append(@, mesh) ]
        ELSE stored

\* addConnection on a registry: the registry after the call.  time and suffix are
\* what Date.now() and Math.random() give generateConnectionId, draw1 and draw2
\* what Math.random() gives createAnimationParticle.
addConnectionTo(registry, fromElement, toElement, options, time, suffix, draw1, draw2) ==
    LET points == ConnectionEndpoints(fromElement, toElement)
        curveOptions == Merge(Merge(ManagerOptions,
                                    [animationEnabled |-> registry.animationEnabled]),
                              options)
        curve == createCurve(points.fromPoint, points.toPoint, curveOptions)
        connection == [ id |-> generateConnectionId(time, suffix),
                        fromElement |-> fromElement,
                        toElement |-> toElement,
                        curve |-> curve,
                        options |-> curveOptions ]
        mesh == NewMesh(registry.animationParticles, registry.animationGroup)
        particle == createAnimationParticle(mesh, curve, connection.id, draw1, draw2)
        stored == [ registry EXCEPT
                      !.curves = Append(@, curve),
                      !.connections = Append(@, connection),
                      !.connectionGroup.children =
                          @ \o ConnectionVisuals(curveOptions, connection.id) ]
    IN  IF registry.animationEnabled
        THEN [ stored EXCEPT !.animationParticles = Append(@, particle),
                             !.animationGroup.children = Append(@, mesh) ]
        ELSE stored

\* The registry's fields become those of the record
BecomesRegistry(after) ==
    /\ connections' = after.connections
    /\ curves' = after.curves
    /\ connectionGroup' = after.connectionGroup
    /\ animationGroup' = after.animationGroup
    /\ animationParticles' = after.animationParticles
    /\ animationEnabled' = after.animationEnabled

addConnection(fromElement, toElement, options, time, suffix, draw1, draw2) ==
    BecomesRegistry(addConnectionTo(Registry, fromElement, toElement, options,
                                    time, suffix, draw1, draw2))

\* A removal that stops at the first child it finds
RemoveVisualsFirstOnly(children, connectionId) ==
    LET hits == {i \in DOMAIN children : children[i].connectionId = connectionId}
        first == CHOOSE i \in hits : \A j \in hits : i <= j
    IN  IF hits = {} THEN children
        ELSE SubSeq(children, 1, first - 1) \o SubSeq(children, first + 1, Len(children))

\* removeConnection, first part: the children of connectionGroup that stay
RemoveVisuals(children, connectionId) ==
    LET Stays(child) == child.connectionId # connectionId
    IN  SelectSeq(children, Stays)

\* splice(indexOf(particle), 1) without the filter before it: an identifier no
\* particle carries gives index -1, and splice(-1, 1) drops the last particle
RemoveParticlesSpliceMissing(particles, connectionId) ==
    LET Stays(particle) == particle.userData.connectionId # connectionId
    IN  IF \A i \in DOMAIN particles : Stays(particles[i])
        THEN SubSeq(particles, 1, Len(particles) - 1)
        ELSE SelectSeq(particles, Stays)

\* The particles leave the scene but stay in the list
RemoveParticlesKeepList(particles, connectionId) == particles

\* removeConnection, second part: the particles that stay in animationParticles
RemoveParticles(particles, connectionId) ==
    LET Stays(particle) == particle.userData.connectionId # connectionId
    IN  SelectSeq(particles, Stays)

\* removeConnection, third part: the connections that stay
RemoveStored(conns, connectionId) ==
    LET Stays(conn) == conn.id # connectionId
    IN  SelectSeq(conns, Stays)

removeConnection(connectionId) ==
    LET gone == {animationParticles[i].mesh : i \in
                    {j \in DOMAIN animationParticles :
                        animationParticles[j].userData.connectionId = connectionId}}
        InScene(m) == m \notin gone
    IN  /\ connectionGroup' =
              [connectionGroup EXCEPT !.children = RemoveVisuals(@, connectionId)]
        /\ animationGroup' = [animationGroup EXCEPT !.children = SelectSeq(@, InScene)]
        /\ animationParticles' = RemoveParticles(animationParticles, connectionId)
        /\ connections' = RemoveStored(connections, connectionId)
        /\ UNCHANGED <<curves, animationEnabled>>

\* The wrap test made before the addition
AdvanceProgressWrapLate(progress, speed) ==
    IF progress >= Unit THEN 0 ELSE progress + speed

\* The overshoot carried over the wrap
AdvanceProgressCarry(progress, speed) == (progress + speed) % Unit

\* The wrap test with > in place of >=
AdvanceProgressStrict(progress, speed) ==
    IF progress + speed > Unit THEN 0 ELSE progress + speed

\* One particle's step in updateAnimations
AdvanceProgress(progress, speed) ==
    IF progress + speed >= Unit THEN 0 ELSE progress + speed

updateAnimations ==
    /\ IF animationEnabled
       THEN animationParticles' =
               [i \in DOMAIN animationParticles |->
                   [animationParticles[i] EXCEPT
                       !.userData.progress = AdvanceProgress(@, animationParticles[i].userData.speed)]]
       ELSE UNCHANGED animationParticles
    /\ UNCHANGED <<connections, curves, connectionGroup, animationGroup, animationEnabled>>

RECURSIVE SpawnAll(_, _, _, _, _)
\* toggleAnimation's loop over this.curves from index i, pairing curve i with
\* connection i; draws[i] are the two random numbers of the i-th particle.
SpawnAll(i, particles, group, conns, draws) ==
    IF i > Len(curves)
    THEN [particles |-> particles, group |-> group]
    ELSE IF i <= Len(conns)
    THEN LET mesh == NewMesh(particles, group)
             particle == createAnimationParticle(mesh, curves[i], conns[i].id,
                                                 draws[i][1], draws[i][2])
         IN  SpawnAll(i + 1, Append(particles, particle),
                      [group EXCEPT !.children = Append(@, mesh)], conns, draws)
    ELSE SpawnAll(i + 1, particles, group, conns, draws)

toggleAnimation(draws) ==
    /\ animationEnabled' = ~animationEnabled
    /\ IF animationEnabled'
       THEN LET made == SpawnAll(1, animationParticles, animationGroup, connections, draws)
            IN  /\ animationParticles' = made.particles
                /\ animationGroup' = made.group
       ELSE LET held == {animationParticles[i].mesh : i \in DOMAIN animationParticles}
                InScene(m) == m \notin held
            IN  /\ animationGroup' = [animationGroup EXCEPT !.children = SelectSeq(@, InScene)]
                /\ animationParticles' = <<>>
    /\ UNCHANGED <<connections, curves, connectionGroup>>

setVisible(visible) ==
    /\ connectionGroup' = [connectionGroup EXCEPT !.visible = visible]
    /\ animationGroup' = [animationGroup EXCEPT !.visible = visible]
    /\ UNCHANGED <<connections, curves, animationParticles, animationEnabled>>

\* A clear that forgets the curve list, as removeConnection does
clearKeepingCurves ==
    /\ connectionGroup' = [connectionGroup EXCEPT !.children = <<>>]
    /\ animationGroup' = [animationGroup EXCEPT !.children = <<>>]
    /\ animationParticles' = <<>>
    /\ connections' = <<>>
    /\ UNCHANGED <<curves, animationEnabled>>

clear ==
    /\ connectionGroup' = [connectionGroup EXCEPT !.children = <<>>]
    /\ animationGroup' = [animationGroup EXCEPT !.children = <<>>]
    /\ curves' = <<>>
    /\ animationParticles' = <<>>
    /\ connections' = <<>>
    /\ UNCHANGED animationEnabled

(***************************************************************************)
(* The registry's life: any sequence of its operations                     *)
(***************************************************************************)
\* At most MaxCurves curves are pushed between two clears, and at most MaxTicks
\* frames are run.
MaxCurves == 2

MaxTicks == 1

\* lastOp: the operation, the identifier it was given or returned, whether a
\* connection with that identifier (for clear: any connection) was stored when it
\* was called, and the arguments of an addConnection.
Called(op, id, known) ==
    [op |-> op, id |-> id, known |-> known, from |-> "", to |-> "", options |-> <<>>]

CalledAdd(id, known, from, to, options) ==
    [op |-> "addConnection", id |-> id, known |-> known,
     from |-> from, to |-> to, options |-> options]

NoSpawn == [progress |-> 0, speed |-> 0, at |-> 0]

NoCall == [called |-> FALSE, element |-> Element("userInterface"),
           target |-> Vector3(0, 0, 0), point |-> Vector3(0, 0, 0)]

\* After the constructor: empty lists, both groups visible; animationEnabled is true
\* unless the options passed in say otherwise.
Init ==
    /\ connections = <<>>
    /\ curves = <<>>
    /\ animationParticles = <<>>
    /\ connectionGroup = [visible |-> TRUE, children |-> <<>>]
    /\ animationGroup = [visible |-> TRUE, children |-> <<>>]
    /\ animationEnabled \in BOOLEAN
    /\ lastOp = Called("constructor", NoId, FALSE)
    /\ ticks = 0
    /\ spawn = NoSpawn
    /\ meshes = CreatedMeshes
    /\ interaction = InteractionManager
    /\ viewer = AxonometricViewer
    /\ resolved = NoCall

\* The connections the registry is driven with: the first two connections of the
\* hospital diagram, the second one drawn sharp and with an arrowhead.
ConfiguredConnections ==
    { [from |-> "userInterface", to |-> "businessLogic",
       options |-> [curveType |-> "architectural", verticalOffset |-> (6 * Unit) \div 10]],
      [from |-> "businessLogic", to |-> "Output Tables",
       options |-> [curveType |-> "sharp", showArrows |-> TRUE]] }

\* What the clock and the random generator give the registry: one of two
\* identifiers (the same reading and the same digits may come again), and for a
\* particle either progress 0 at the greatest speed or the greatest progress at the
\* least speed.
IdDraws == {<<0, "i">>, <<1, "4fzyo82mv">>}

ParticleDraws == {<<0, Unit - 1>>, <<Unit - 1, 0>>}

AddConnection ==
    \E conn \in ConfiguredConnections,
       stamp \in IdDraws, draws \in ParticleDraws :
        LET time == stamp[1]
            suffix == stamp[2]
            draw1 == draws[1]
            draw2 == draws[2]
        IN
        /\ Len(curves) < MaxCurves
        /\ addConnection(conn.from, conn.to, conn.options, time, suffix, draw1, draw2)
        /\ lastOp' = CalledAdd(generateConnectionId(time, suffix),
                               generateConnectionId(time, suffix) \in IdsOf(connections),
                               conn.from, conn.to, conn.options)
        /\ UNCHANGED <<ticks, spawn, resolved, meshes, interaction, viewer>>

RemoveConnection ==
    \E connectionId \in ConnectionIds \cup {NoId} :
        /\ removeConnection(connectionId)
        /\ lastOp' = Called("removeConnection", connectionId,
                            connectionId \in IdsOf(connections))
        /\ UNCHANGED <<ticks, spawn, resolved, meshes, interaction, viewer>>

UpdateAnimations ==
    /\ ticks < MaxTicks
    /\ updateAnimations
    /\ ticks' = ticks + 1
    /\ lastOp' = Called("updateAnimations", NoId, FALSE)
    /\ UNCHANGED <<spawn, resolved, meshes, interaction, viewer>>

ToggleAnimation ==
    \E draws \in [1..(IF animationEnabled THEN 0 ELSE Len(connections))
                    -> ParticleDraws] :
        /\ toggleAnimation(draws)
        /\ lastOp' = Called("toggleAnimation", NoId, FALSE)
        /\ UNCHANGED <<ticks, spawn, resolved, meshes, interaction, viewer>>

SetVisible ==
    \E visible \in BOOLEAN :
        /\ setVisible(visible)
        /\ lastOp' = Called("setVisible", NoId, FALSE)
        /\ UNCHANGED <<ticks, spawn, resolved, meshes, interaction, viewer>>

Clear ==
    /\ clear
    /\ lastOp' = Called("clear", NoId, connections # <<>>)
    /\ UNCHANGED <<ticks, spawn, resolved, meshes, interaction, viewer>>

Next ==
    \/ AddConnection
    \/ RemoveConnection
    \/ UpdateAnimations
    \/ ToggleAnimation
    \/ Clear

Spec == Init /\ [][Next]_vars

(***************************************************************************)
(* Properties of the registry                                              *)
(***************************************************************************)
\* The stored connections, the visuals and the particles that carry an identifier
StoredWith(conns, id) ==
    LET Has(conn) == conn.id = id
    IN  SelectSeq(conns, Has)

VisualsWith(children, id) ==
    LET Has(child) == child.connectionId = id
    IN  SelectSeq(children, Has)

ParticlesWith(particles, id) ==
    LET Has(particle) == particle.userData.connectionId = id
    IN  SelectSeq(particles, Has)

MeshesOf(particles) == {particles[i].mesh : i \in DOMAIN particles}

SceneMeshes(group) == {group.children[i] : i \in DOMAIN group.children}

\* C1: removeConnection with an identifier that names no stored connection changes
\* nothing: the stored connections, the curve and arrow visuals, the particles with
\* their progress and speed, and the animation flag are after the call what they
\* were before it.
C1_RemoveUnknownChangesNothing ==
    [][ (lastOp'.op = "removeConnection" /\ ~lastOp'.known)
        => UNCHANGED <<connections, curves, connectionGroup, animationGroup,
                       animationParticles, animationEnabled>> ]_vars

C1_Witness ==
    /\ lastOp.op = "removeConnection"
    /\ ~lastOp.known
    /\ lastOp.id \in ConnectionIds
    /\ Len(connections) = 2
    /\ Len(animationParticles) = 2
    /\ \E i \in DOMAIN connectionGroup.children : connectionGroup.children[i].type = "arrow"

\* C2: removeConnection with the identifier of a stored connection leaves no stored
\* connection, no visual and no particle with that identifier, and every connection
\* with another identifier keeps its record, its visuals and its particle, progress
\* and speed included.
C2_RemoveKnownRemovesOnlyThat ==
    [][ (lastOp'.op = "removeConnection" /\ lastOp'.known)
        => /\ StoredWith(connections', lastOp'.id) = <<>>
           /\ VisualsWith(connectionGroup'.children, lastOp'.id) = <<>>
           /\ ParticlesWith(animationParticles', lastOp'.id) = <<>>
           /\ MeshesOf(ParticlesWith(animationParticles, lastOp'.id))
                 \cap SceneMeshes(animationGroup') = {}
           /\ \A id \in IdsOf(connections) \ {lastOp'.id} :
                 /\ StoredWith(connections', id) = StoredWith(connections, id)
                 /\ VisualsWith(connectionGroup'.children, id)
                       = VisualsWith(connectionGroup.children, id)
                 /\ VisualsWith(connectionGroup'.children, id) # <<>>
                 /\ ParticlesWith(animationParticles', id)
                       = ParticlesWith(animationParticles, id)
                 /\ MeshesOf(ParticlesWith(animationParticles, id))
                       \subseteq SceneMeshes(animationGroup')
    ]_vars

C2_Witness ==
    /\ lastOp.op = "removeConnection"
    /\ lastOp.known
    /\ Len(connections) = 1
    /\ Len(animationParticles) = 1
    /\ Len(curves) = 2
    /\ Len(connectionGroup.children) = 2

\* C3: addConnection stores a connection under the identifier it returns, and the
\* identifiers of the stored connections are pairwise distinct.
C3_StoredIdsDistinct ==
    /\ lastOp.op = "addConnection"
          => /\ connections # <<>>
             /\ connections[Len(connections)].id = lastOp.id
    /\ \A i, j \in DOMAIN connections : i # j => connections[i].id # connections[j].id

\* C4: every flow particle has 0 <= progress < 1 and speed > 0.
C4_ProgressInRange ==
    \A i \in DOMAIN animationParticles :
        /\ 0 <= animationParticles[i].userData.progress
        /\ animationParticles[i].userData.progress < Unit
        /\ animationParticles[i].userData.speed > 0

C4_Witness ==
    /\ lastOp.op = "updateAnimations"
    /\ ticks = MaxTicks
    /\ \E i \in DOMAIN animationParticles :
          /\ animationParticles[i].userData.progress = 0
          /\ animationParticles[i].userData.speed = Scale(Unit, 8, 1000)

\* C5: with animation enabled, one updateAnimations adds to every particle's
\* progress that particle's own speed, puts a progress that reaches or passes 1 back
\* to 0, and changes no speed.
C5_TickAdvancesBySpeed ==
    [][ (lastOp'.op = "updateAnimations" /\ animationEnabled)
        => /\ Len(animationParticles') = Len(animationParticles)
           /\ \A i \in DOMAIN animationParticles :
                 LET before == animationParticles[i].userData
                     after == animationParticles'[i].userData
                 IN  /\ after.speed = before.speed
                     /\ after.connectionId = before.connectionId
                     /\ before.progress + before.speed < Unit
                           => after.progress = before.progress + before.speed
                     /\ before.progress + before.speed >= Unit => after.progress = 0
    ]_vars

C5_Witness ==
    /\ lastOp.op = "updateAnimations"
    /\ animationEnabled
    /\ \E i, j \in DOMAIN animationParticles :
          /\ animationParticles[i].userData.progress = 0
          /\ animationParticles[j].userData.progress = animationParticles[j].userData.speed
          /\ animationParticles[i].userData.speed # animationParticles[j].userData.speed

\* C7: while animation is enabled there are as many particles carrying an
\* identifier as there are stored connections with it (one particle for each
\* connection), and every particle's identifier names a stored connection; while
\* animation is disabled there is no particle.
C7_OneParticlePerConnection ==
    /\ animationEnabled
          => /\ Len(animationParticles) = Len(connections)
             /\ \A id \in IdsOf(connections) :
                   Len(ParticlesWith(animationParticles, id)) = Len(StoredWith(connections, id))
             /\ \A i \in DOMAIN animationParticles :
                   animationParticles[i].userData.connectionId \in IdsOf(connections)
    /\ ~animationEnabled => animationParticles = <<>>

C7_Witness ==
    /\ lastOp.op = "toggleAnimation"
    /\ animationEnabled
    /\ Len(connections) = 1
    /\ Len(curves) = 2
    /\ Len(animationParticles) = 1

(***************************************************************************)
(* One particle over many frames                                           *)
(***************************************************************************)
\* The render loop starts once the configured connections are created; it is
\* followed for MaxFrames frames.  Math.random() is drawn in DrawSteps equal steps.
MaxFrames == 130

DrawSteps == 4

FineDraws == {((Unit - 1) * k) \div DrawSteps : k \in 0..DrawSteps}

SpawnOne ==
    \E conn \in ConfiguredConnections, stamp \in IdDraws,
       draw1 \in FineDraws, draw2 \in FineDraws :
        /\ connections = <<>>
        /\ ticks = 0
        /\ addConnection(conn.from, conn.to, conn.options, stamp[1], stamp[2], draw1, draw2)
        /\ lastOp' = CalledAdd(generateConnectionId(stamp[1], stamp[2]), FALSE,
                               conn.from, conn.to, conn.options)
        /\ spawn' = IF animationEnabled
                    THEN [ progress |-> animationParticles'[1].userData.progress,
                           speed |-> animationParticles'[1].userData.speed,
                           at |-> ticks ]
                    ELSE spawn
        /\ UNCHANGED <<ticks, resolved, meshes, interaction, viewer>>

Frame ==
    /\ connections # <<>>
    /\ ticks < MaxFrames
    /\ updateAnimations
    /\ ticks' = ticks + 1
    /\ lastOp' = Called("updateAnimations", NoId, FALSE)
    /\ UNCHANGED <<spawn, resolved, meshes, interaction, viewer>>

ParticleNext ==
    \/ SpawnOne
    \/ Frame

ParticleSpec == Init /\ [][ParticleNext]_vars

\* Frames run since the particle was made
FramesRun == ticks - spawn.at

\* The first frame at which progress0 + n * speed reaches 1
FirstWrap == (Unit - spawn.progress + spawn.speed - 1) \div spawn.speed

\* The frames from progress 0 to the next wrap
Period == (Unit + spawn.speed - 1) \div spawn.speed

\* C6 as claimed: after N ticks the progress is (p0 + N * speed) mod 1.
C6_ProgressIsModulo ==
    \A i \in DOMAIN animationParticles :
        animationParticles[i].userData.progress
            = (spawn.progress + FramesRun * spawn.speed) % Unit

\* C6 amended: after N ticks the progress is p0 + N * speed while that sum is below
\* 1; the tick at which the sum reaches or passes 1 sets the progress to exactly 0,
\* the overshoot discarded, and k ticks after a wrap the progress is k * speed,
\* wrapping to 0 again every ceil(1 / speed) ticks.
C6_ProgressRestartsAtZero ==
    \A i \in DOMAIN animationParticles :
        LET progress == animationParticles[i].userData.progress
        IN  /\ animationParticles[i].userData.speed = spawn.speed
            /\ FramesRun < FirstWrap => progress = spawn.progress + FramesRun * spawn.speed
            /\ FramesRun >= FirstWrap
                  => progress = ((FramesRun - FirstWrap) % Period) * spawn.speed

C6_Witness ==
    /\ Len(animationParticles) = 1
    /\ spawn.progress > 0
    /\ FramesRun = FirstWrap + Period + 1
    /\ (spawn.progress + FirstWrap * spawn.speed) % Unit # 0
    /\ animationParticles[1].userData.progress = spawn.speed

(***************************************************************************)
(* addConnection between any two elements, with any curve type             *)
(***************************************************************************)
\* At most MaxAdded connections are stored between two clears.
MaxAdded == 1

CurveOptions ==
    { [curveType |-> "architectural", verticalOffset |-> (6 * Unit) \div 10],
      [curveType |-> "smooth"],
      [curveType |-> "sharp", showArrows |-> TRUE] }

AddAny ==
    \E from \in ElementIds, to \in ElementIds, options \in CurveOptions :
        /\ Len(connections) < MaxAdded
        /\ addConnection(from, to, options, 0, "i", 0, Unit - 1)
        /\ lastOp' = CalledAdd(generateConnectionId(0, "i"),
                               generateConnectionId(0, "i") \in IdsOf(connections),
                               from, to, options)
        /\ UNCHANGED <<ticks, spawn, resolved, meshes, interaction, viewer>>

AddNext ==
    \/ AddAny
    \/ Clear

AddSpec == Init /\ [][AddNext]_vars

\* C8: the curve of a stored connection starts at the connection point of its from
\* element facing its to element and ends at the connection point of its to
\* element facing its from element, each found by the resolver of the element's
\* own kind; the connection addConnection stores holds the from element, the to
\* element and the options it was given, and the curve built from the two points.
C8_EndpointsFaceEachOther ==
    /\ \A i \in DOMAIN connections :
          LET conn == connections[i]
              from == Element(conn.fromElement)
              to == Element(conn.toElement)
              ByKind(element, target) ==
                  IF element.userData.type = "platform"
                  THEN getPlatformConnectionPoint(element, target)
                  ELSE getComponentConnectionPoint(element, target)
          IN  /\ conn.curve.v0 = ByKind(from, to)
              /\ conn.curve.v3 = ByKind(to, from)
              /\ conn.curve = createCurve(ByKind(from, to), ByKind(to, from), conn.options)
              /\ curves[i] = conn.curve
    /\ lastOp.op = "addConnection"
          => LET conn == connections[Len(connections)]
             IN  /\ conn.id = lastOp.id
                 /\ conn.fromElement = lastOp.from
                 /\ conn.toElement = lastOp.to
                 /\ \A k \in DOMAIN lastOp.options : conn.options[k] = lastOp.options[k]

C8_Witness ==
    /\ lastOp.op = "addConnection"
    /\ lastOp.from = "Output Tables"
    /\ lastOp.to = "userInterface"
    /\ connections[1].options.curveType = "smooth"
    /\ connections[1].curve.v0.x = Element("Output Tables").position.x
                                     - Element("Output Tables").geometry.width \div 2
    /\ connections[1].curve.v3.x = Element("userInterface").position.x
                                     + Element("userInterface").geometry.width \div 2

(***************************************************************************)
(* The platform resolver on platforms of any size and targets anywhere     *)
(***************************************************************************)
\* Targets lie on the grid of whole scene units from -MaxCoord to MaxCoord, at
\* height 0 or 2, or where the elements of the diagram are.
MaxCoord == 7

GridPositions ==
    {Vector3(i * Unit, j * 2 * Unit, k * Unit) :
        i \in -MaxCoord..MaxCoord, j \in 0..1, k \in -MaxCoord..MaxCoord}

TargetPositions == GridPositions \cup {Element(id).position : id \in ElementIds}

\* Platform layers as a configuration may give them; 0 is a size or height left out.
PlatformConfigs ==
    { [x |-> c[1], y |-> py, z |-> c[2], width |-> wd[1], height |-> h, depth |-> wd[2]] :
        c \in {<<-6 * Unit, 6 * Unit>>, <<-6 * Unit, Unit>>, <<0, 0>>},
        py \in {0, Unit},
        wd \in {<<8 * Unit, 4 * Unit>>, <<6 * Unit, 3 * Unit>>, <<0, 0>>, <<3 * Unit, 8 * Unit>>},
        h \in {0, Unit} }

Platforms ==
    {createPlatform(data, "layer") : data \in PlatformConfigs}
        \cup {Element("userInterface"), Element("businessLogic")}

\* A platform and a target are drawn, and the calculator is asked once.
ResolverInit ==
    /\ connections = <<>>
    /\ curves = <<>>
    /\ animationParticles = <<>>
    /\ connectionGroup = [visible |-> TRUE, children |-> <<>>]
    /\ animationGroup = [visible |-> TRUE, children |-> <<>>]
    /\ animationEnabled = TRUE
    /\ lastOp = Called("constructor", NoId, FALSE)
    /\ ticks = 0
    /\ spawn = NoSpawn
    /\ meshes = CreatedMeshes
    /\ interaction = InteractionManager
    /\ viewer = AxonometricViewer
    /\ \E platform \in Platforms, target \in TargetPositions :
          resolved = [ called |-> FALSE, element |-> platform, target |-> target,
                       point |-> Vector3(0, 0, 0) ]

ResolvePlatform ==
    /\ ~resolved.called
    /\ resolved.element.userData.type = "platform"
    /\ resolved' = [ resolved EXCEPT
                        !.called = TRUE,
                        !.point = getConnectionPoint(resolved.element,
                                                     [position |-> resolved.target]) ]
    /\ UNCHANGED <<connections, curves, connectionGroup, animationGroup,
                   animationParticles, animationEnabled, lastOp, ticks, spawn,
                   meshes, interaction, viewer>>

ResolverNext ==
    \/ ResolvePlatform

ResolverSpec == ResolverInit /\ [][ResolverNext]_vars

Between(lo, v, hi) == lo <= v /\ v <= hi

\* C9: the point resolved for a platform lies on one of its four vertical side
\* faces (x at center.x +/- width/2 with z within the depth, or z at
\* center.z +/- depth/2 with x within the width), its y is center.y + height/2 + 0.1,
\* and it is never above the platform's center.
C9_PlatformPointOnSideFace ==
    (resolved.called /\ resolved.element.userData.type = "platform")
    => LET center == resolved.element.position
           halfWidth == resolved.element.geometry.width \div 2
           halfDepth == resolved.element.geometry.depth \div 2
           point == resolved.point
       IN  /\ \/ /\ point.x \in {center.x + halfWidth, center.x - halfWidth}
                 /\ Between(center.z - halfDepth, point.z, center.z + halfDepth)
              \/ /\ point.z \in {center.z + halfDepth, center.z - halfDepth}
                 /\ Between(center.x - halfWidth, point.x, center.x + halfWidth)
           /\ point.y = center.y + resolved.element.geometry.height \div 2 + Unit \div 10
           /\ ~(point.x = center.x /\ point.z = center.z)

\* A target straight above the platform's center, and one beyond a corner
C9_Witness ==
    /\ resolved.called
    /\ resolved.element.userData.type = "platform"
    /\ resolved.element.geometry.width = 3 * Unit
    /\ resolved.target.x - resolved.element.position.x = 5 * Unit
    /\ resolved.target.z - resolved.element.position.z = 5 * Unit
    /\ resolved.point.x = resolved.element.position.x + (3 * Unit) \div 2
    /\ resolved.point.z = resolved.element.position.z + 4 * Unit

Sign(a) == IF a > 0 THEN 1 ELSE IF a < 0 THEN -1 ELSE 0

Clamp(v, lo, hi) == IF v < lo THEN lo ELSE IF v > hi THEN hi ELSE v

\* C10: when |dx| is greater than |dz| the point is on the x face on the side of
\* the sign of dx, when |dz| is greater than |dx| on the z face on the side of the
\* sign of dz, and its coordinate along the face is the target's offset clamped to
\* the face.  userInterface (at (-6, 6), 8 x 4) facing businessLogic (at (-6, 1),
\* 6 x 3) gives z = 4, and businessLogic facing userInterface gives z = 2.5.
C10_PlatformFaceFacesTarget ==
    (resolved.called /\ resolved.element.userData.type = "platform")
    => LET center == resolved.element.position
           halfWidth == resolved.element.geometry.width \div 2
           halfDepth == resolved.element.geometry.depth \div 2
           dx == resolved.target.x - center.x
           dz == resolved.target.z - center.z
           point == resolved.point
       IN  /\ Abs(dx) > Abs(dz)
                 => /\ point.x = center.x + Sign(dx) * halfWidth
                    /\ point.z = center.z + Clamp(dz, -halfDepth, halfDepth)
           /\ Abs(dz) > Abs(dx)
                 => /\ point.z = center.z + Sign(dz) * halfDepth
                    /\ point.x = center.x + Clamp(dx, -halfWidth, halfWidth)
           /\ (resolved.element = Element("userInterface")
                 /\ resolved.target = Element("businessLogic").position)
                 => point.z = 4 * Unit
           /\ (resolved.element = Element("businessLogic")
                 /\ resolved.target = Element("userInterface").position)
                 => point.z = (5 * Unit) \div 2

C10_Witness ==
    /\ resolved.called
    /\ resolved.element = Element("businessLogic")
    /\ resolved.target = Element("userInterface").position
    /\ resolved.point = Vector3(-6 * Unit, Unit \div 10, (5 * Unit) \div 2)

(***************************************************************************)
(* The component resolvers and the resolvers of the other kinds, on        *)
(* components of any configured size and targets all around them           *)
(***************************************************************************)
\* Targets lie at whole scene units around the element, up to MaxOffset away on
\* each axis; offset (0, 0, 0) is a target where the element itself is.
MaxOffset == 3

Offsets ==
    {Vector3(i * Unit, j * Unit, k * Unit) :
        i \in -MaxOffset..MaxOffset, j \in -MaxOffset..MaxOffset, k \in -MaxOffset..MaxOffset}

\* Components as a configuration may give them; size 0 is a size left out.
ComponentConfigs ==
    { [name |-> n, x |-> c[1], y |-> 0, z |-> c[2], size |-> sz] :
        n \in {"Pie Chart", "AirTable"},
        c \in {<<-6 * Unit, 7 * Unit>>, <<2 * Unit, -4 * Unit>>},
        sz \in {0, 3 * Unit} }

Components ==
    {createComponent(data, "layer", hasPlataform, BusinessLogicData) :
        data \in ComponentConfigs, hasPlataform \in BOOLEAN}
        \cup {Element("Pie Chart"), Element("Output Tables"), Element("AirTable")}

\* Scene objects that are neither platforms nor components: a node, an object of a
\* kind the calculator does not know, and one whose userData has no type.
OtherElements ==
    { [ position |-> Vector3(Unit, 2 * Unit, -3 * Unit),
        geometry |-> [type |-> "BoxGeometry", width |-> Unit, height |-> Unit, depth |-> Unit],
        userData |-> userData ] :
        userData \in { [type |-> "node"], [type |-> "label"], [name |-> "untyped"] } }

\* One call of getConnectionPoint on the Vector3 objects it touches: the element's
\* position, and the new vector (position.clone()) the resolvers write the point
\* into.  The result is that vector; the element's position is read only.
ResolverCallNoClone(element, targetElement) ==
    LET point == getConnectionPoint(element, targetElement)
        objects == [position |-> element.position]
        written == [objects EXCEPT !.position = point]
    IN  [point |-> written.position, position |-> written.position]

ResolverCall(element, targetElement) ==
    LET point == getConnectionPoint(element, targetElement)
        objects == [position |-> element.position, clone |-> element.position]
        written == [objects EXCEPT !.clone = point]
    IN  [point |-> written.clone, position |-> written.position]

\* An element and a target are drawn, and the calculator is asked once.  center
\* is where the element was before the call.
ElementInit ==
    /\ connections = <<>>
    /\ curves = <<>>
    /\ animationParticles = <<>>
    /\ connectionGroup = [visible |-> TRUE, children |-> <<>>]
    /\ animationGroup = [visible |-> TRUE, children |-> <<>>]
    /\ animationEnabled = TRUE
    /\ lastOp = Called("constructor", NoId, FALSE)
    /\ ticks = 0
    /\ spawn = NoSpawn
    /\ meshes = CreatedMeshes
    /\ interaction = InteractionManager
    /\ viewer = AxonometricViewer
    /\ \E element \in Components \cup OtherElements, offset \in Offsets :
          resolved = [ called |-> FALSE, element |-> element,
                       center |-> element.position,
                       target |-> Vector3(element.position.x + offset.x,
                                          element.position.y + offset.y,
                                          element.position.z + offset.z),
                       point |-> Vector3(0, 0, 0) ]

Resolve ==
    LET call == ResolverCall(resolved.element, [position |-> resolved.target])
    IN  /\ ~resolved.called
        /\ resolved' = [ resolved EXCEPT
                            !.called = TRUE,
                            !.point = call.point,
                            !.element = [@ EXCEPT !.position = call.position] ]
        /\ UNCHANGED <<connections, curves, connectionGroup, animationGroup,
                       animationParticles, animationEnabled, lastOp, ticks, spawn,
                       meshes, interaction, viewer>>

ResolveComponent ==
    /\ KindOf(resolved.element) = "component"
    /\ Resolve

ResolveOther ==
    /\ KindOf(resolved.element) \notin {"platform", "component"}
    /\ Resolve

ElementNext ==
    \/ ResolveComponent
    \/ ResolveOther

ElementSpec == ElementInit /\ [][ElementNext]_vars

\* The offsets of the target from where the element was, and the greatest of them
TargetOffset == Vector3(resolved.target.x - resolved.center.x,
                        resolved.target.y - resolved.center.y,
                        resolved.target.z - resolved.center.z)

PointOffset == Vector3(resolved.point.x - resolved.center.x,
                       resolved.point.y - resolved.center.y,
                       resolved.point.z - resolved.center.z)

Dominant == Max(Abs(TargetOffset.x), Max(Abs(TargetOffset.y), Abs(TargetOffset.z)))

ResolvedAs(kind) == resolved.called /\ KindOf(resolved.element) = kind

IsCylinder == ResolvedAs("component") /\ resolved.element.userData.isDatabaseComponent

IsStandalone ==
    /\ ResolvedAs("component")
    /\ ~resolved.element.userData.isDatabaseComponent
    /\ ~resolved.element.userData.hasPlataform

IsOnPlatform ==
    /\ ResolvedAs("component")
    /\ ~resolved.element.userData.isDatabaseComponent
    /\ resolved.element.userData.hasPlataform

Toward(d, half) == IF d > 0 THEN half ELSE -half

\* C11 (the platform resolver): a target whose offsets along x and z are equally
\* large, and not zero, is answered with the x face on the side of dx, as the
\* priority order X > Y > Z asks.
C11_PlatformTieTakesXFace ==
    LET center == resolved.element.position
        dx == resolved.target.x - center.x
        dz == resolved.target.z - center.z
    IN  (resolved.called /\ KindOf(resolved.element) = "platform"
            /\ Abs(dx) = Abs(dz) /\ dx # 0)
        => resolved.point.x = center.x + Toward(dx, resolved.element.geometry.width \div 2)

\* C11 (the two component resolvers): a tie in which x takes part is answered with
\* an x face, and a tie of y and z above x with a y face.
C11_ComponentTieByPriority ==
    (IsStandalone \/ IsOnPlatform)
    => /\ Abs(TargetOffset.x) = Dominant
            => PointOffset.x # 0 /\ PointOffset.y = 0 /\ PointOffset.z = 0
       /\ (Abs(TargetOffset.x) < Dominant /\ Abs(TargetOffset.y) = Dominant)
            => PointOffset.x = 0 /\ PointOffset.y # 0 /\ PointOffset.z = 0

\* The cylinder rule: a cap center when |dy| is greater than the horizontal
\* distance, else the point of the side at height center.y that lies the radius
\* 0.9 from the axis toward the target (to within three steps of rounding).
CylinderRule ==
    LET d == TargetOffset
        o == PointOffset
        radius == (9 * Unit) \div 10
        horizontalSq == d.x * d.x + d.z * d.z
        axisSq == o.x * o.x + o.z * o.z
    IN  /\ d.y * d.y > horizontalSq
            => o = Vector3(0, Toward(d.y, radius), 0)
        /\ d.y * d.y <= horizontalSq
            => /\ o.y = 0
               /\ (radius - 3) * (radius - 3) <= axisSq
               /\ axisSq <= (radius + 3) * (radius + 3)
               /\ o.x * d.x + o.z * d.z > 0
               /\ Abs(o.x * d.z - o.z * d.x) <= Abs(d.x) + Abs(d.z)

\* C12: for a cylindrical component and any target, the point is the center of the
\* top or bottom cap when |dy| is greater than the horizontal distance, and
\* otherwise keeps the cylinder's y and lies on the side at the radius from the
\* axis in the horizontal direction of the target; for the cylinder at (2, -4)
\* and a target 2 along x and 3 along z away at the same height the side rule
\* applies.
C12_CylinderCapOrSide ==
    IsCylinder
    => /\ CylinderRule
       /\ (resolved.center.x = 2 * Unit /\ resolved.center.z = -4 * Unit
             /\ TargetOffset = Vector3(2 * Unit, 0, 3 * Unit))
            => PointOffset.y = 0 /\ PointOffset.x > 0 /\ PointOffset.z > 0

\* The cylinder rule for every target that is not where the cylinder is
C12_CylinderRuleAwayFromCenter ==
    (IsCylinder /\ TargetOffset # Vector3(0, 0, 0)) => CylinderRule

\* C13: when the horizontal distance to the target is zero the point is on a cap,
\* at center.y + 0.9 or center.y - 0.9 above or below the center, also when dy is
\* zero; it is not the center.
C13_ZeroDistanceGivesCap ==
    (IsCylinder /\ TargetOffset.x = 0 /\ TargetOffset.z = 0)
    => /\ PointOffset.x = 0
       /\ PointOffset.z = 0
       /\ Abs(PointOffset.y) = (9 * Unit) \div 10

\* The cap is what a target straight above or below gets
C13_CapWhenAboveOrBelow ==
    (IsCylinder /\ TargetOffset.x = 0 /\ TargetOffset.z = 0 /\ TargetOffset.y # 0)
    => PointOffset = Vector3(0, Toward(TargetOffset.y, (9 * Unit) \div 10), 0)

\* The point lies on the face of a box of the given half extents that the
\* dominant offset points to, at the center of that face.
OnDominantFace(halfWidth, halfHeight, halfDepth) ==
    \/ /\ Abs(TargetOffset.x) = Dominant
       /\ PointOffset = Vector3(Toward(TargetOffset.x, halfWidth), 0, 0)
    \/ /\ Abs(TargetOffset.y) = Dominant
       /\ PointOffset = Vector3(0, Toward(TargetOffset.y, halfHeight), 0)
    \/ /\ Abs(TargetOffset.z) = Dominant
       /\ PointOffset = Vector3(0, 0, Toward(TargetOffset.z, halfDepth))

\* C14: for a standalone component that is not a cylinder, the point differs from
\* the center on one axis only, an axis of the greatest offset to the target, by
\* half the measured extent of the geometry on that axis on the target's side;
\* the other two coordinates are the center's.
C14_StandalonePointOnDominantFace ==
    IsStandalone
    => OnDominantFace(resolved.element.geometry.width \div 2,
                      resolved.element.geometry.height \div 2,
                      resolved.element.geometry.depth \div 2)

\* A standalone component of size 3 (3.16 x 3.16 x 3.1 measured) and a target
\* behind it
C14_Witness ==
    /\ IsStandalone
    /\ resolved.element.geometry.depth = 3 * Unit + Unit \div 10
    /\ TargetOffset = Vector3(Unit, -2 * Unit, -3 * Unit)
    /\ PointOffset = Vector3(0, 0, -((3 * Unit + Unit \div 10) \div 2))

\* C15: for a component on a platform that is not a cylinder, the point is the
\* center moved by 0.75 along one axis, an axis of the greatest offset to the
\* target, on the target's side (the negative side when the offset is not
\* positive); the other two coordinates are the component's, and the component's
\* position is what it was before the call.
C15_PlatformComponentNominalFace ==
    IsOnPlatform
    => /\ OnDominantFace((3 * Unit) \div 4, (3 * Unit) \div 4, (3 * Unit) \div 4)
       /\ resolved.element.position = resolved.center

\* A component of size 3 on a platform and a target with x and z equally far
C15_Witness ==
    /\ IsOnPlatform
    /\ resolved.element.geometry.width = 3 * Unit + 2 * Scale(Unit, 8, 100)
    /\ TargetOffset = Vector3(-2 * Unit, Unit, 2 * Unit)
    /\ PointOffset = Vector3(-((3 * Unit) \div 4), 0, 0)
    /\ resolved.element.position = resolved.center

\* C16: for an element whose kind is 'node', missing or unknown, the point is the
\* element's position whatever the target, and the position is what it was.
C16_OtherKindsGiveCenter ==
    (resolved.called /\ KindOf(resolved.element) \notin {"platform", "component"})
    => /\ resolved.point = resolved.center
       /\ resolved.element.position = resolved.center

\* An element without a kind and a target away from it
C16_Witness ==
    /\ ResolvedAs("undefined")
    /\ TargetOffset = Vector3(-3 * Unit, 2 * Unit, 0)
    /\ resolved.point = Vector3(Unit, 2 * Unit, -3 * Unit)

\* "On or very near the surface": within a tenth of a scene unit of it
SurfaceTolerance == Unit \div 10

Near(a, b) == Abs(a - b) <= SurfaceTolerance

NearBoxSurface(o, halfWidth, halfHeight, halfDepth) ==
    /\ Abs(o.x) <= halfWidth + SurfaceTolerance
    /\ Abs(o.y) <= halfHeight + SurfaceTolerance
    /\ Abs(o.z) <= halfDepth + SurfaceTolerance
    /\ \/ Near(Abs(o.x), halfWidth)
       \/ Near(Abs(o.y), halfHeight)
       \/ Near(Abs(o.z), halfDepth)

NearCylinderSurface(o, radius, halfHeight) ==
    LET fromAxis == Sqrt(o.x * o.x + o.z * o.z)
    IN  /\ fromAxis <= radius + SurfaceTolerance
        /\ Abs(o.y) <= halfHeight + SurfaceTolerance
        /\ Near(fromAxis, radius) \/ Near(Abs(o.y), halfHeight)

\* C17: the point resolved for a component on a platform or for a cylinder on a
\* platform, of any configured size, lies on or very near the surface of the mesh
\* createComponent built, and is not its center.
C17_PointNearSurface ==
    LET g == resolved.element.geometry
    IN  /\ IsOnPlatform
            => /\ NearBoxSurface(PointOffset, g.width \div 2, g.height \div 2, g.depth \div 2)
               /\ PointOffset # Vector3(0, 0, 0)
        /\ (IsCylinder /\ resolved.element.userData.hasPlataform)
            => /\ NearCylinderSurface(PointOffset, g.width \div 2, g.height \div 2)
               /\ PointOffset # Vector3(0, 0, 0)

\* With the size left out (1.5), and the target not where the element is, the
\* point is near the surface
C17_DefaultSizeNearSurface ==
    LET g == resolved.element.geometry
    IN  /\ (IsOnPlatform /\ g.depth = (3 * Unit) \div 2 + Unit \div 10)
            => NearBoxSurface(PointOffset, g.width \div 2, g.height \div 2, g.depth \div 2)
        /\ (IsCylinder /\ g.height = (18 * Unit) \div 10
              /\ TargetOffset # Vector3(0, 0, 0))
            => NearCylinderSurface(PointOffset, g.width \div 2, g.height \div 2)

(***************************************************************************)
(* The curve generator on any two points and any style                     *)
(***************************************************************************)
\* Endpoints lie at whole scene units 0..MaxPoint along x, at heights that are
\* multiples of 2.5 up to 2.5 * MaxPoint, and at z = 0 or 3.
MaxPoint == 2

CurvePoints ==
    {Vector3(i * Unit, j * ((5 * Unit) \div 2), k * 3 * Unit) :
        i \in 0..MaxPoint, j \in 0..MaxPoint, k \in 0..1}

\* The option bag with no key set
NoOptions == [k \in {} |-> 0]

\* Styles createCurve accepts: it looks at nothing but the keys, so any curveType
\* (an unknown one is drawn architectural) and any number for the offsets, each
\* key set or left out.
Styles ==
    { Merge(Merge(type, vertical), horizontal) :
        type \in {NoOptions} \cup { [curveType |-> t] :
                    t \in {"architectural", "smooth", "sharp", "zigzag"} },
        vertical \in {NoOptions} \cup { [verticalOffset |-> v] :
                    v \in {0, (6 * Unit) \div 10, -(Unit \div 2)} },
        horizontal \in {NoOptions, [horizontalOffset |-> Unit \div 2]} }

\* Two points and a style are drawn, and createCurve is called once.  curveHeight
\* and midPoint are the locals of createArchitecturalCurve in that call.
CurveInit ==
    /\ connections = <<>>
    /\ curves = <<>>
    /\ animationParticles = <<>>
    /\ connectionGroup = [visible |-> TRUE, children |-> <<>>]
    /\ animationGroup = [visible |-> TRUE, children |-> <<>>]
    /\ animationEnabled = TRUE
    /\ lastOp = Called("constructor", NoId, FALSE)
    /\ ticks = 0
    /\ spawn = NoSpawn
    /\ meshes = CreatedMeshes
    /\ interaction = InteractionManager
    /\ viewer = AxonometricViewer
    /\ \E startPoint \in CurvePoints, endPoint \in CurvePoints, options \in Styles :
          resolved = [ called |-> FALSE, start |-> startPoint, end |-> endPoint,
                       options |-> options,
                       curve |-> CubicBezierCurve3(Vector3(0, 0, 0), Vector3(0, 0, 0),
                                                   Vector3(0, 0, 0), Vector3(0, 0, 0)),
                       curveHeight |-> 0, midPoint |-> Vector3(0, 0, 0) ]

CreateCurve ==
    /\ ~resolved.called
    /\ resolved' = [ resolved EXCEPT
                        !.called = TRUE,
                        !.curve = createCurve(resolved.start, resolved.end, resolved.options),
                        !.curveHeight = curveHeight(resolved.start, resolved.end,
                                                    resolved.options),
                        !.midPoint = midPoint(resolved.start, resolved.end,
                                              resolved.options) ]
    /\ UNCHANGED <<connections, curves, connectionGroup, animationGroup,
                   animationParticles, animationEnabled, lastOp, ticks, spawn,
                   meshes, interaction, viewer>>

CurveNext ==
    \/ CreateCurve

CurveSpec == CurveInit /\ [][CurveNext]_vars

CurveTypeOf(options) ==
    IF "curveType" \in DOMAIN options /\ options.curveType \in {"smooth", "sharp"}
    THEN options.curveType
    ELSE "architectural"

\* C18: for the three curve types and any start, end and style, the first control
\* point of the curve is start and the last is end, and the curve sampled at
\* t = 0 is start and at t = 1 is end.
C18_CurveJoinsStartAndEnd ==
    resolved.called
    => /\ resolved.curve.v0 = resolved.start
       /\ resolved.curve.v3 = resolved.end
       /\ getPoint(resolved.curve, 0) = resolved.start
       /\ getPoint(resolved.curve, 1) = resolved.end

\* A sharp curve between two different points whose control points are neither
C18_Witness ==
    /\ resolved.called
    /\ CurveTypeOf(resolved.options) = "sharp"
    /\ resolved.start = Vector3(0, 0, 0)
    /\ resolved.end = Vector3(2 * Unit, (5 * Unit) \div 2, 3 * Unit)
    /\ resolved.curve.v1 \notin {resolved.start, resolved.end}
    /\ getPoint(resolved.curve, 1) = resolved.end

\* C19: for the three curve types and any start, end and style createCurve
\* accepts, neither inner control point is lower than the lower of start and end.
C19_ControlPointsNotBelow ==
    resolved.called
    => /\ resolved.curve.v1.y >= Min(resolved.start.y, resolved.end.y)
       /\ resolved.curve.v2.y >= Min(resolved.start.y, resolved.end.y)

\* With a verticalOffset that is left out or not negative the control points are
\* not below; and an architectural curve's never are.
C19_NotBelowWhenOffsetNotNegative ==
    (resolved.called
        /\ \/ CurveTypeOf(resolved.options) = "architectural"
           \/ Opt(resolved.options, "verticalOffset", 0) >= 0)
    => /\ resolved.curve.v1.y >= Min(resolved.start.y, resolved.end.y)
       /\ resolved.curve.v2.y >= Min(resolved.start.y, resolved.end.y)

\* C20: the height createArchitecturalCurve uses is at least the verticalOffset of
\* the style (0.8 when left out) and at least 0.3 x |end.y - start.y|; midPoint is
\* that height above the higher endpoint, halfway between start and end along x
\* and z; and the control points are placed by them (60% of the way to midPoint,
\* 70% of the height above their endpoint).
C20_ApexHeightAndMidPoint ==
    (resolved.called /\ CurveTypeOf(resolved.options) = "architectural")
    => LET start == resolved.start
           end == resolved.end
           height == resolved.curveHeight
           mid == resolved.midPoint
       IN  /\ height >= Opt(resolved.options, "verticalOffset", (8 * Unit) \div 10)
           /\ 10 * height >= 3 * Abs(end.y - start.y)
           /\ mid = Vector3((start.x + end.x) \div 2,
                            Max(start.y, end.y) + height,
                            (start.z + end.z) \div 2)
           /\ resolved.curve.v1 = Vector3(start.x + Scale(mid.x - start.x, 6, 10),
                                          start.y + Scale(height, 7, 10),
                                          start.z + Scale(mid.z - start.z, 6, 10))
           /\ resolved.curve.v2 = Vector3(end.x + Scale(mid.x - end.x, 6, 10),
                                          end.y + Scale(height, 7, 10),
                                          end.z + Scale(mid.z - end.z, 6, 10))

\* A rise of 5 with verticalOffset 0.6: the height is 0.3 x 5 = 1.5, above the
\* higher endpoint
C20_Witness ==
    /\ resolved.called
    /\ CurveTypeOf(resolved.options) = "architectural"
    /\ Opt(resolved.options, "verticalOffset", 0) = (6 * Unit) \div 10
    /\ resolved.start = Vector3(0, 5 * Unit, 0)
    /\ resolved.end = Vector3(2 * Unit, 0, 3 * Unit)
    /\ resolved.curveHeight = (3 * Unit) \div 2
    /\ resolved.midPoint = Vector3(Unit, 5 * Unit + (3 * Unit) \div 2, (3 * Unit) \div 2)

(***************************************************************************)
(* Degenerate geometry: a target where the element is or right next to it, *)
(* elements without extent, curves between coincident points               *)
(***************************************************************************)
\* Targets lie at most MaxNear scene units from the element on each axis.
MaxNear == 1

NearOffsets ==
    {Vector3(i * Unit, j * Unit, k * Unit) :
        i \in -MaxNear..MaxNear, j \in -MaxNear..MaxNear, k \in -MaxNear..MaxNear}

\* An element whose geometry has no extent on any axis
WithoutExtent(element) ==
    [element EXCEPT !.geometry.width = 0, !.geometry.height = 0, !.geometry.depth = 0]

DegenerateElements ==
    LET built == {Element(id) : id \in ElementIds} \cup Components \cup OtherElements
    IN  built \cup {WithoutExtent(element) : element \in built}

\* The curve inputs: the same point twice, or two points one above the other
DegenerateEnds(startPoint) ==
    {endPoint \in CurvePoints : endPoint.x = startPoint.x /\ endPoint.z = startPoint.z}

\* Either the calculator is asked once, or the generator is.
DegenerateInit ==
    /\ connections = <<>>
    /\ curves = <<>>
    /\ animationParticles = <<>>
    /\ connectionGroup = [visible |-> TRUE, children |-> <<>>]
    /\ animationGroup = [visible |-> TRUE, children |-> <<>>]
    /\ animationEnabled = TRUE
    /\ lastOp = Called("constructor", NoId, FALSE)
    /\ ticks = 0
    /\ spawn = NoSpawn
    /\ meshes = CreatedMeshes
    /\ interaction = InteractionManager
    /\ viewer = AxonometricViewer
    /\ \/ \E element \in DegenerateElements, offset \in NearOffsets :
             resolved = [ called |-> FALSE, element |-> element,
                          center |-> element.position,
                          target |-> Vector3(element.position.x + offset.x,
                                             element.position.y + offset.y,
                                             element.position.z + offset.z),
                          point |-> Vector3(0, 0, 0) ]
       \/ \E startPoint \in CurvePoints, options \in Styles :
             \E endPoint \in DegenerateEnds(startPoint) :
                resolved = [ called |-> FALSE, start |-> startPoint, end |-> endPoint,
                             options |-> options,
                             curve |-> CubicBezierCurve3(Vector3(0, 0, 0), Vector3(0, 0, 0),
                                                         Vector3(0, 0, 0), Vector3(0, 0, 0)),
                             curveHeight |-> 0, midPoint |-> Vector3(0, 0, 0) ]

ResolveDegenerate ==
    /\ "element" \in DOMAIN resolved
    /\ Resolve

CreateDegenerateCurve ==
    /\ "curve" \in DOMAIN resolved
    /\ CreateCurve

DegenerateNext ==
    \/ ResolveDegenerate
    \/ CreateDegenerateCurve

DegenerateSpec == DegenerateInit /\ [][DegenerateNext]_vars

\* Every coordinate of the vector is a number
IsFinite(v) == DOMAIN v = {"x", "y", "z"}

\* C21: for coincident (or vertically aligned) start and end every curve type
\* returns four control points with finite coordinates, and every resolver
\* returns a point with finite coordinates for a target where the element is, or
\* next to it, and for an element without extent.
C21_DegenerateInputsGiveFinitePoints ==
    resolved.called
    => IF "element" \in DOMAIN resolved
       THEN IsFinite(resolved.point)
       ELSE /\ IsFinite(resolved.curve.v0)
            /\ IsFinite(resolved.curve.v1)
            /\ IsFinite(resolved.curve.v2)
            /\ IsFinite(resolved.curve.v3)

\* A cylinder asked for the point facing a target at its own position
C21_Witness ==
    /\ "element" \in DOMAIN resolved
    /\ IsCylinder
    /\ resolved.target = resolved.center
    /\ resolved.point = resolved.center

(***************************************************************************)
(* Diagram3D: finding the elements of the configured connections           *)
(***************************************************************************)
\* What findElement gives when nothing is found (null or undefined)
NotFound == [type |-> "null"]

\* Diagram3D.findElement.  platforms is the set of layers this.platforms has a
\* platform for, components is this.components (name and layer of each, in the
\* order they were created); an identifier is a record of the keys it sets.
findElement(identifier, platforms, components) ==
    LET Matches(c) ==
            \/ "name" \in DOMAIN identifier /\ c.name = identifier.name
            \/ "layer" \in DOMAIN identifier /\ c.layer = identifier.layer
        hits == {i \in DOMAIN components : Matches(components[i])}
        first == CHOOSE i \in hits : \A j \in hits : i <= j
    IN  IF Opt(identifier, "type", "undefined") = "platform"
        THEN IF "layer" \in DOMAIN identifier /\ identifier.layer \in platforms
             THEN [type |-> "platform", layer |-> identifier.layer]
             ELSE NotFound
        ELSE IF Opt(identifier, "type", "undefined") = "component"
        THEN IF hits = {}
             THEN NotFound
             ELSE [type |-> "component", name |-> components[first].name,
                   layer |-> components[first].layer]
        ELSE NotFound

\* The element a found record stands for, as the registry is given it
ElementIdOf(found) == IF found.type = "platform" THEN found.layer ELSE found.name

\* The loop as it would be if a missing element ended it
RECURSIVE createConnectionsFromUntilMissing(_, _, _, _, _)
createConnectionsFromUntilMissing(i, registry, configured, platforms, components) ==
    IF i > Len(configured)
    THEN registry
    ELSE LET fromElement == findElement(configured[i].from, platforms, components)
             toElement == findElement(configured[i].to, platforms, components)
         IN  IF fromElement # NotFound /\ toElement # NotFound
             THEN createConnectionsFromUntilMissing(
                      i + 1,
                      addConnectionTo(registry, ElementIdOf(fromElement),
                                      ElementIdOf(toElement),
                                      Opt(configured[i], "options", NoOptions),
                                      i, "i", 0, Unit - 1),
                      configured, platforms, components)
             ELSE registry

\* Diagram3D.createConnections: the forEach over this.connections from index i.
\* The i-th addConnection reads the clock at i; its random numbers are fixed.
RECURSIVE createConnectionsFrom(_, _, _, _, _)
createConnectionsFrom(i, registry, configured, platforms, components) ==
    IF i > Len(configured)
    THEN registry
    ELSE LET fromElement == findElement(configured[i].from, platforms, components)
             toElement == findElement(configured[i].to, platforms, components)
         IN  IF fromElement # NotFound /\ toElement # NotFound
             THEN createConnectionsFrom(
                      i + 1,
                      addConnectionTo(registry, ElementIdOf(fromElement),
                                      ElementIdOf(toElement),
                                      Opt(configured[i], "options", NoOptions),
                                      i, "i", 0, Unit - 1),
                      configured, platforms, components)
             ELSE createConnectionsFrom(i + 1, registry, configured, platforms, components)

\* A diagram of three platforms and three components, from the hospital data
DiagramPlatforms == {"userInterface", "businessLogic", "database"}

DiagramComponents ==
    << [name |-> "Pie Chart", layer |-> "userInterface"],
       [name |-> "Output Tables", layer |-> "output"],
       [name |-> "AirTable", layer |-> "database"] >>

\* Identifiers a configuration may hold: two that resolve, and a component no
\* one has, a layer without a platform and a type findElement does not know.
DiagramIdentifiers ==
    { [type |-> "platform", layer |-> "businessLogic"],
      [type |-> "component", name |-> "Output Tables"],
      [type |-> "component", name |-> "Payroll"],
      [type |-> "platform", layer |-> "output"],
      [type |-> "node", name |-> "Pie Chart"] }

\* At most MaxConfigured connections are configured.
MaxConfigured == 2

ConfiguredLists ==
    UNION { [1..n -> { [ from |-> from, to |-> to,
                         options |-> [curveType |-> "architectural",
                                      verticalOffset |-> (6 * Unit) \div 10] ] :
                         from \in DiagramIdentifiers, to \in DiagramIdentifiers }] :
            n \in 0..MaxConfigured }

\* init() calls createConnections once, on the registry as constructed.
CreateConnections ==
    \E configured \in ConfiguredLists :
        /\ lastOp.op = "constructor"
        /\ BecomesRegistry(createConnectionsFrom(1, Registry, configured,
                                                 DiagramPlatforms, DiagramComponents))
        /\ lastOp' = [op |-> "createConnections", configured |-> configured]
        /\ UNCHANGED <<ticks, spawn, resolved, meshes, interaction, viewer>>

DiagramNext ==
    \/ CreateConnections

DiagramSpec == Init /\ [][DiagramNext]_vars

\* The configured connections whose two identifiers both name an element of the
\* diagram
BothFound(conn) ==
    /\ findElement(conn.from, DiagramPlatforms, DiagramComponents) # NotFound
    /\ findElement(conn.to, DiagramPlatforms, DiagramComponents) # NotFound

\* C22: after createConnections the registry holds one connection for each
\* configured connection whose from and to both resolve, in their order and
\* between the elements found; a configured connection with an endpoint that does
\* not resolve stores nothing and does not keep the ones after it from being added.
C22_OnlyResolvedConnectionsAdded ==
    lastOp.op = "createConnections"
    => LET resolvable == SelectSeq(lastOp.configured, BothFound)
       IN  /\ Len(connections) = Len(resolvable)
           /\ Len(curves) = Len(resolvable)
           /\ \A k \in DOMAIN resolvable :
                 /\ connections[k].fromElement =
                       ElementIdOf(findElement(resolvable[k].from,
                                               DiagramPlatforms, DiagramComponents))
                 /\ connections[k].toElement =
                       ElementIdOf(findElement(resolvable[k].to,
                                               DiagramPlatforms, DiagramComponents))

\* A connection from a component no one has, followed by one that resolves
C22_Witness ==
    /\ lastOp.op = "createConnections"
    /\ Len(lastOp.configured) = 2
    /\ lastOp.configured[1].from = [type |-> "component", name |-> "Payroll"]
    /\ lastOp.configured[2].from = [type |-> "platform", layer |-> "businessLogic"]
    /\ lastOp.configured[2].to = [type |-> "component", name |-> "Output Tables"]
    /\ Len(connections) = 1
    /\ connections[1].fromElement = "businessLogic"
    /\ connections[1].toElement = "Output Tables"

\* C23: an architectural curve has control point 1 at 60% of the horizontal way
\* from start to the horizontal midpoint, at y = start.y + 0.7 x apexHeight, and
\* control point 2 at 60% of the horizontal way from end to the midpoint, at
\* y = end.y + 0.7 x apexHeight, where apexHeight is the greater of verticalOffset
\* (0.8 when the style gives none) and 0.3 x |end.y - start.y|.
C23_ArchitecturalControlPoints ==
    (resolved.called /\ "curve" \in DOMAIN resolved
        /\ CurveTypeOf(resolved.options) = "architectural")
    => LET start == resolved.start
           end == resolved.end
           verticalOffset == IF "verticalOffset" \in DOMAIN resolved.options
                             THEN resolved.options.verticalOffset
                             ELSE (8 * Unit) \div 10
           apexHeight == Max(verticalOffset, (3 * Abs(end.y - start.y)) \div 10)
           midX == (start.x + end.x) \div 2
           midZ == (start.z + end.z) \div 2
       IN  /\ resolved.curve.v1.x = start.x + (6 * (midX - start.x)) \div 10
           /\ resolved.curve.v1.y = start.y + (7 * apexHeight) \div 10
           /\ resolved.curve.v1.z = start.z + (6 * (midZ - start.z)) \div 10
           /\ resolved.curve.v2.x = end.x + (6 * (midX - end.x)) \div 10
           /\ resolved.curve.v2.y = end.y + (7 * apexHeight) \div 10
           /\ resolved.curve.v2.z = end.z + (6 * (midZ - end.z)) \div 10

\* No verticalOffset in the style and both ends at one height: apexHeight is 0.8,
\* the control points are 0.56 above the ends and 0.6 from them along x
C23_Witness ==
    /\ resolved.called
    /\ "curve" \in DOMAIN resolved
    /\ resolved.options = NoOptions
    /\ resolved.start = Vector3(0, 0, 0)
    /\ resolved.end = Vector3(2 * Unit, 0, 0)
    /\ resolved.curve.v1 = Vector3((6 * Unit) \div 10, (56 * Unit) \div 100, 0)
    /\ resolved.curve.v2 = Vector3(2 * Unit - (6 * Unit) \div 10, (56 * Unit) \div 100, 0)

(***************************************************************************)
(* The registry with its visibility switched as well                       *)
(***************************************************************************)
VisibleNext ==
    \/ AddConnection
    \/ RemoveConnection
    \/ UpdateAnimations
    \/ ToggleAnimation
    \/ SetVisible
    \/ Clear

VisibleSpec == Init /\ [][VisibleNext]_vars

\* A registry that holds nothing, with the flags of the present one
Emptied ==
    [ connections |-> <<>>, curves |-> <<>>,
      connectionGroup |-> [visible |-> connectionGroup.visible, children |-> <<>>],
      animationGroup |-> [visible |-> animationGroup.visible, children |-> <<>>],
      animationParticles |-> <<>>, animationEnabled |-> animationEnabled ]

\* C24: clear() empties the registry: no stored connections, no stored curves, no
\* particles and no children in either group are left, while the animation flag
\* and both visibility flags keep their values; an updateAnimations() or a
\* removeConnection(id) that follows changes nothing, and an addConnection that
\* follows leaves what it leaves on a newly constructed registry with those flags.
C24_ClearEmptiesRegistry ==
    [][ /\ (lastOp'.op = "clear") => (Registry' = Emptied)
        /\ (lastOp.op = "clear" /\ lastOp'.op \in {"updateAnimations", "removeConnection"})
              => (Registry' = Registry)
        /\ (lastOp.op = "clear" /\ lastOp'.op = "addConnection")
              => \E draws \in ParticleDraws :
                    Registry' = addConnectionTo(Emptied, lastOp'.from, lastOp'.to,
                                                lastOp'.options, lastOp'.id.t,
                                                lastOp'.id.r, draws[1], draws[2]) ]_vars

\* clear() was called on a hidden registry that held connections and particles
C24_Witness ==
    /\ lastOp.op = "clear"
    /\ lastOp.known
    /\ animationEnabled
    /\ ~connectionGroup.visible
    /\ ~animationGroup.visible

\* C26: after any sequence of addConnection, removeConnection, toggleAnimation and
\* clear, every flow particle holds the curve of the stored connection whose
\* identifier it carries.
C26_ParticleHoldsCurveOfItsConnection ==
    \A i \in DOMAIN animationParticles :
        \E j \in DOMAIN connections :
            /\ connections[j].id = animationParticles[i].userData.connectionId
            /\ connections[j].curve = animationParticles[i].userData.curve

(***************************************************************************)
(* The render loop running without end                                     *)
(***************************************************************************)
\* At most MaxLive connections are added.
MaxLive == 1

\* The i-th connection of the diagram
LiveConnection(i) ==
    IF i % 2 = 0
    THEN [from |-> "userInterface", to |-> "businessLogic",
          options |-> [curveType |-> "architectural", verticalOffset |-> (6 * Unit) \div 10]]
    ELSE [from |-> "businessLogic", to |-> "Output Tables",
          options |-> [curveType |-> "sharp", showArrows |-> TRUE]]

AddLive ==
    \E draws \in ParticleDraws :
        LET conn == LiveConnection(Len(curves))
            time == Len(curves)
        IN  /\ Len(curves) < MaxLive
            /\ addConnection(conn.from, conn.to, conn.options, time, "i",
                             draws[1], draws[2])
            /\ lastOp' = CalledAdd(generateConnectionId(time, "i"),
                                   generateConnectionId(time, "i") \in IdsOf(connections),
                                   conn.from, conn.to, conn.options)
            /\ UNCHANGED <<ticks, spawn, resolved, meshes, interaction, viewer>>

\* One frame of the render loop (startAnimationLoop), which never stops
Tick ==
    /\ updateAnimations
    /\ lastOp' = Called("updateAnimations", NoId, FALSE)
    /\ UNCHANGED <<ticks, spawn, resolved, meshes, interaction, viewer>>

LiveNext ==
    \/ AddLive
    \/ RemoveConnection
    \/ ToggleAnimation
    \/ Tick

\* requestAnimationFrame schedules the next frame from within each frame
LiveSpec == Init /\ [][LiveNext]_vars /\ WF_vars(Tick)

\* The particle whose mesh is m, if there is one, has this progress / another one
ProgressIs(m, p) ==
    \A i \in DOMAIN animationParticles :
        animationParticles[i].mesh = m => animationParticles[i].userData.progress = p

ProgressIsNot(m, p) ==
    \A i \in DOMAIN animationParticles :
        animationParticles[i].mesh = m => animationParticles[i].userData.progress # p

\* C27: with frames run again and again, every flow particle that stays in the
\* registry has progress 0 infinitely often and a progress other than 0 infinitely
\* often: it wraps for ever and never rests at one value.
C27_ProgressWrapsForever ==
    \A m \in 0..MaxLive :
        /\ []<>ProgressIs(m, 0)
        /\ []<>ProgressIsNot(m, 0)

\* A particle made with progress 0 at the greatest speed has wrapped
C27_Witness ==
    /\ lastOp.op = "updateAnimations"
    /\ animationEnabled
    /\ \E i \in DOMAIN animationParticles :
          /\ animationParticles[i].userData.progress = 0
          /\ animationParticles[i].userData.speed > Scale(Unit, 8, 1000)

(***************************************************************************)
(* findElement on the hospital diagram                                     *)
(***************************************************************************)
\* this.platforms and this.components after createElements on hospitalData
HospitalPlatforms == {"userInterface", "businessLogic", "database"}

HospitalComponents ==
    << [name |-> "Input Tables", layer |-> "userInterface"],
       [name |-> "Pie Chart", layer |-> "userInterface"],
       [name |-> "Year Selector", layer |-> "userInterface"],
       [name |-> "Bar Chart", layer |-> "userInterface"],
       [name |-> "Donut Chart", layer |-> "userInterface"],
       [name |-> "Excel Calculator", layer |-> "businessLogic"],
       [name |-> "Web Calculator", layer |-> "businessLogic"],
       [name |-> "Output Tables", layer |-> "output"],
       [name |-> "AirTable", layer |-> "database"],
       [name |-> "Excel", layer |-> "database"] >>

HospitalNames == {HospitalComponents[i].name : i \in DOMAIN HospitalComponents}

HospitalLayers == {HospitalComponents[i].layer : i \in DOMAIN HospitalComponents}

\* The identifiers a configuration may hold: a type or none, a name or none, a
\* layer or none; "Payroll" and "network" name nothing in the diagram.
Identifiers ==
    LET types == {"platform", "component", "node"}
        names == HospitalNames \cup {"Payroll"}
        layers == HospitalLayers \cup {"network"}
        Keys(keys, t, n, l) ==
            [k \in keys |-> IF k = "type" THEN t ELSE IF k = "name" THEN n ELSE l]
    IN  { Keys(keys, t, n, l) : keys \in SUBSET {"type", "name", "layer"},
                               t \in types, n \in names, l \in layers }

FindInit ==
    /\ connections = <<>>
    /\ curves = <<>>
    /\ animationParticles = <<>>
    /\ connectionGroup = [visible |-> TRUE, children |-> <<>>]
    /\ animationGroup = [visible |-> TRUE, children |-> <<>>]
    /\ animationEnabled = TRUE
    /\ lastOp = Called("constructor", NoId, FALSE)
    /\ ticks = 0
    /\ spawn = NoSpawn
    /\ meshes = CreatedMeshes
    /\ interaction = InteractionManager
    /\ viewer = AxonometricViewer
    /\ \E identifier \in Identifiers :
          resolved = [called |-> FALSE, identifier |-> identifier, found |-> NotFound]

FindElement ==
    /\ ~resolved.called
    /\ resolved' = [resolved EXCEPT
                       !.called = TRUE,
                       !.found = findElement(resolved.identifier, HospitalPlatforms,
                                             HospitalComponents)]
    /\ UNCHANGED <<connections, curves, connectionGroup, animationGroup,
                   animationParticles, animationEnabled, lastOp, ticks, spawn,
                   meshes, interaction, viewer>>

FindNext ==
    \/ FindElement

FindSpec == FindInit /\ [][FindNext]_vars

\* The identifier's value under a key, "" if it does not set the key
Key(identifier, key) == Opt(identifier, key, "")

\* C28: findElement with a component identifier of name N, with or without a
\* layer, returns a component named N whenever the diagram has one; with a
\* platform identifier of layer L it returns the platform of layer L; an
\* identifier of any other type resolves to no element.
C28_FindElementReturnsTheNamed ==
    resolved.called =>
        LET identifier == resolved.identifier
            found == resolved.found
        IN  /\ (Key(identifier, "type") = "component"
                    /\ Key(identifier, "name") \in HospitalNames)
                  => (found.type = "component" /\ found.name = identifier.name)
            /\ (Key(identifier, "type") = "platform"
                    /\ Key(identifier, "layer") \in HospitalPlatforms)
                  => found = [type |-> "platform", layer |-> identifier.layer]
            /\ Key(identifier, "type") \notin {"platform", "component"}
                  => found = NotFound

\* What does hold: a component identifier that sets no layer returns the component
\* it names; the platform and the other-type parts hold as claimed.
C28_NamedWhenNoLayer ==
    resolved.called =>
        LET identifier == resolved.identifier
            found == resolved.found
        IN  /\ (Key(identifier, "type") = "component"
                    /\ Key(identifier, "name") \in HospitalNames
                    /\ "layer" \notin DOMAIN identifier)
                  => (found.type = "component" /\ found.name = identifier.name)
            /\ (Key(identifier, "type") = "platform"
                    /\ Key(identifier, "layer") \in HospitalPlatforms)
                  => found = [type |-> "platform", layer |-> identifier.layer]
            /\ Key(identifier, "type") \notin {"platform", "component"}
                  => found = NotFound

(***************************************************************************)
(* InteractionManager                                                      *)
(***************************************************************************)
\* The meshes and the manager as one value, which each method maps to the value
\* after it.  Info cards and the scale the meshes are drawn at are not followed.
World == [meshes |-> meshes, interaction |-> interaction]

BecomesWorld(after) ==
    /\ meshes' = after.meshes
    /\ interaction' = after.interaction

\* object.material as a value: the registered material if the mesh shares it
Shown(w, object) ==
    IF w.meshes[object].material = Registered
    THEN w.interaction.originalMaterials[object]
    ELSE w.meshes[object].material

\* The components that stand on a platform
PlatformComponents(platform) ==
    {o \in ElementIds : /\ Element(o).userData.type = "component"
                        /\ Element(o).userData.layer = Element(platform).userData.layer
                        /\ Element(o).userData.hasPlataform}

\* smoothHoverTransition, with addPulsingGlow.  elapsed is performance.now() -
\* startTime, in milliseconds.
smoothHoverTransition(w, object) ==
    [w EXCEPT
        !.interaction.materialTransitions[object] =
            [ startMaterial |-> w.interaction.originalMaterials[object],
              targetMaterial |-> hoverMaterial,
              elapsed |-> 0, duration |-> 300, type |-> "hover" ],
        !.meshes[object].glowEffect = TRUE]

\* smoothResetComponentState, with removePulsingGlow
smoothResetComponentState(w, object) ==
    [w EXCEPT
        !.interaction.materialTransitions[object] =
            [ startMaterial |-> Shown(w, object),
              targetMaterial |-> w.interaction.originalMaterials[object],
              elapsed |-> 0, duration |-> 200, type |-> "reset" ],
        !.interaction.targetScales[object] = Vector3(Unit, Unit, Unit),
        !.meshes[object].glowEffect = FALSE]

\* onMouseMove; object is intersects[0].object, NoObject if the ray hits nothing
onMouseMove(w, object) ==
    LET hovered == w.interaction.hoveredComponent
        selected == w.interaction.selectedComponent
        left == IF hovered # NoObject /\ hovered # selected
                THEN smoothResetComponentState(w, hovered)
                ELSE w
    IN  IF object # NoObject
        THEN IF hovered # object /\ object # selected
             THEN [ smoothHoverTransition(
                        [left EXCEPT !.interaction.hoveredComponent = object], object)
                    EXCEPT !.interaction.targetScales[object] =
                               Vector3(Scale(Unit, 115, 100), Scale(Unit, 115, 100),
                                       Scale(Unit, 115, 100)) ]
             ELSE w
        ELSE IF hovered # NoObject /\ hovered # selected
             THEN [left EXCEPT !.interaction.hoveredComponent = NoObject]
             ELSE w

\* resetComponentState on each of a set of meshes: the registered material, scale
\* 1 and userData.originalPosition again
resetComponentStates(w, reset) ==
    [w EXCEPT
        !.meshes = [o \in ElementIds |->
                       IF o \in reset
                       THEN [@[o] EXCEPT !.material = Registered,
                                         !.position = Element(o).position]
                       ELSE @[o]],
        !.interaction.targetScales =
            [o \in ElementIds |-> IF o \in reset THEN Vector3(Unit, Unit, Unit) ELSE @[o]]]

resetComponentState(w, object) == resetComponentStates(w, {object})

resetPlatformComponents(w, platform) ==
    resetComponentStates(w, PlatformComponents(platform))

animatePlatformWithComponents(w, platform) ==
    LET grown == Vector3(Scale(Unit, 11, 10), Scale(Unit, 11, 10), Scale(Unit, 11, 10))
    IN  [w EXCEPT !.interaction.targetScales =
            [o \in ElementIds |->
                IF o = platform \/ o \in PlatformComponents(platform) THEN grown ELSE @[o]]]

\* A click handler that drops the clicked mesh's pending transition
onMouseClickDroppingTransition(w, object) ==
    LET selected == w.interaction.selectedComponent
        deselected ==
            IF selected = NoObject
            THEN w
            ELSE IF Element(selected).userData.type = "platform"
            THEN resetPlatformComponents(resetComponentState(w, selected), selected)
            ELSE resetComponentState(w, selected)
        chosen == [deselected EXCEPT
                      !.interaction.selectedComponent = object,
                      !.interaction.materialTransitions[object] = NoTransition,
                      !.meshes[object].material =
                          [selectedMaterial EXCEPT !.emissiveIntensity = Scale(Unit, 7, 10)]]
    IN  IF object # NoObject
        THEN IF Element(object).userData.type = "platform"
             THEN animatePlatformWithComponents(chosen, object)
             ELSE [chosen EXCEPT !.interaction.targetScales[object] =
                      Vector3(Scale(Unit, 13, 10), Scale(Unit, 18, 10), Scale(Unit, 13, 10))]
        ELSE [deselected EXCEPT !.interaction.selectedComponent = NoObject]

\* onMouseClick; object is intersects[0].object, NoObject if the ray hits nothing
onMouseClick(w, object) ==
    LET selected == w.interaction.selectedComponent
        deselected ==
            IF selected = NoObject
            THEN w
            ELSE IF Element(selected).userData.type = "platform"
            THEN resetPlatformComponents(resetComponentState(w, selected), selected)
            ELSE resetComponentState(w, selected)
        chosen == [deselected EXCEPT
                      !.interaction.selectedComponent = object,
                      !.meshes[object].material =
                          [selectedMaterial EXCEPT !.emissiveIntensity = Scale(Unit, 7, 10)]]
    IN  IF object # NoObject
        THEN IF Element(object).userData.type = "platform"
             THEN animatePlatformWithComponents(chosen, object)
             ELSE [chosen EXCEPT !.interaction.targetScales[object] =
                      Vector3(Scale(Unit, 13, 10), Scale(Unit, 18, 10), Scale(Unit, 13, 10))]
        ELSE [deselected EXCEPT !.interaction.selectedComponent = NoObject]

\* THREE.MathUtils.lerp, t in thousandths
lerp(a, b, t) == a + Scale(b - a, t, Unit)

\* The eased progress of a transition: progress = min(elapsed / duration, 1),
\* eased in and out quadratically
Eased(transition) ==
    LET progress == Min(Scale(transition.elapsed, Unit, transition.duration), Unit)
    IN  IF 2 * progress < Unit
        THEN Scale(2 * progress, progress, Unit)
        ELSE Unit - Scale(2 * Unit - 2 * progress, 2 * Unit - 2 * progress, 2 * Unit)

\* What updateMaterialTransitions writes into object.material for a transition
Interpolated(currentMaterial, transition) ==
    LET startMat == transition.startMaterial
        targetMat == transition.targetMaterial
        glowing == [currentMaterial EXCEPT
                       !.emissiveIntensity = lerp(startMat.emissiveIntensity,
                                                  targetMat.emissiveIntensity,
                                                  Eased(transition))]
    IN  IF "shininess" \in DOMAIN startMat /\ "shininess" \in DOMAIN targetMat
        THEN Merge(glowing, [shininess |-> lerp(startMat.shininess, targetMat.shininess,
                                                Eased(transition))])
        ELSE glowing

\* updateMaterialTransitions: every pending transition writes the interpolated
\* values into the material the mesh has at that moment, and a transition whose
\* time is up makes its target the mesh's material and leaves the map.
updateMaterialTransitions(w) ==
    LET Pending(o) == w.interaction.materialTransitions[o] # NoTransition
        Done(o) == w.interaction.materialTransitions[o].elapsed
                       >= w.interaction.materialTransitions[o].duration
        Shares(o) == w.meshes[o].material = Registered
    IN  [w EXCEPT
            !.meshes =
                [o \in ElementIds |->
                    IF ~Pending(o) THEN @[o]
                    ELSE IF Done(o)
                    THEN [@[o] EXCEPT
                             !.material = w.interaction.materialTransitions[o].targetMaterial]
                    ELSE IF Shares(o) THEN @[o]
                    ELSE [@[o] EXCEPT
                             !.material =
                                 Interpolated(@, w.interaction.materialTransitions[o])]],
            !.interaction.originalMaterials =
                [o \in ElementIds |->
                    IF Pending(o) /\ Shares(o)
                    THEN Interpolated(@[o], w.interaction.materialTransitions[o])
                    ELSE @[o]],
            !.interaction.materialTransitions =
                [o \in ElementIds |-> IF Pending(o) /\ Done(o) THEN NoTransition ELSE @[o]]]

\* Math.sin in thousandths, at the arguments the frames below give it
sin(a) ==
    CASE a = 785 -> 707
      [] a = 942 -> 809
      [] a = 1570 -> 1000
      [] a = 4712 -> -1000
      [] a = 5654 -> -588
      [] OTHER -> 0

\* Date.now() * 0.002 within 10 pi, the common period of the three sines a frame
\* takes of it: 0, pi / 4 and 3 pi / 2, in thousandths
FrameTimes == {0, 785, 4712}

\* The meshes a frame floats: the selected one, and with a selected platform the
\* components on it
Floating(w) ==
    LET selected == w.interaction.selectedComponent
    IN  IF selected = NoObject THEN {}
        ELSE IF Element(selected).userData.type = "platform"
        THEN {selected} \cup PlatformComponents(selected)
        ELSE {selected}

\* InteractionManager.updateAnimations at the given time: the material
\* transitions, then the floating and the pulsing of the floating meshes
interactionUpdateAnimations(w, time) ==
    LET moved == updateMaterialTransitions(w)
        floatAmount(o) == IF Element(o).userData.type = "platform"
                          THEN Scale(Unit, 8, 100) ELSE Scale(Unit, 12, 100)
        floatSpeed(o) == IF Element(o).userData.type = "platform" THEN 10 ELSE 12
        y(o) == Element(o).position.y
                    + Scale(sin(Scale(time, floatSpeed(o), 10)), floatAmount(o), Unit)
        pulse == Scale(Unit, 7, 10) + Scale(sin(2 * time), 2, 10)
        Shares(o) == moved.meshes[o].material = Registered
    IN  [moved EXCEPT
            !.meshes =
                [o \in ElementIds |->
                    IF o \notin Floating(moved) THEN @[o]
                    ELSE IF Shares(o) THEN [@[o] EXCEPT !.position.y = y(o)]
                    ELSE [@[o] EXCEPT !.position.y = y(o),
                                      !.material.emissiveIntensity = pulse]],
            !.interaction.originalMaterials =
                [o \in ElementIds |->
                    IF o \in Floating(moved) /\ Shares(o)
                    THEN [@[o] EXCEPT !.emissiveIntensity = pulse]
                    ELSE @[o]]]

(***************************************************************************)
(* The mouse, the clock and the render loop against the InteractionManager *)
(***************************************************************************)
\* The clock is read every 300 / TimeSteps milliseconds, and at most MaxEvents
\* mouse events are followed.
TimeSteps == 3

MaxEvents == 3

\* lastOp after a mouse event: the handler, the mesh under the pointer and the
\* number of mouse events so far
Events == IF "events" \in DOMAIN lastOp THEN lastOp.events ELSE 0

Handled(op, object) == [op |-> op, object |-> object, events |-> Events + 1]

\* The meshes the pointer comes over
Pointed == {"userInterface", "Pie Chart", "Output Tables"}

MouseMove ==
    \E object \in Pointed \cup {NoObject} :
        /\ Events < MaxEvents
        /\ BecomesWorld(onMouseMove(World, object))
        /\ lastOp' = Handled("onMouseMove", object)
        /\ UNCHANGED <<connections, curves, connectionGroup, animationGroup,
                       animationParticles, animationEnabled, ticks, spawn,
                       resolved, viewer>>

MouseClick ==
    \E object \in Pointed \cup {NoObject} :
        /\ Events < MaxEvents
        /\ BecomesWorld(onMouseClick(World, object))
        /\ lastOp' = Handled("onMouseClick", object)
        /\ UNCHANGED <<connections, curves, connectionGroup, animationGroup,
                       animationParticles, animationEnabled, ticks, spawn,
                       resolved, viewer>>

\* Time passes: performance.now() - startTime grows for every pending transition
\* (beyond its duration it makes no difference by how much)
Elapse ==
    /\ \E o \in ElementIds :
          /\ interaction.materialTransitions[o] # NoTransition
          /\ interaction.materialTransitions[o].elapsed
                 < interaction.materialTransitions[o].duration
    /\ interaction' =
          [interaction EXCEPT !.materialTransitions =
              [o \in ElementIds |->
                  IF @[o] = NoTransition THEN @[o]
                  ELSE [@[o] EXCEPT !.elapsed = Min(@ + 300 \div TimeSteps,
                                                    interaction.materialTransitions[o].duration)]]]
    /\ UNCHANGED <<connections, curves, connectionGroup, animationGroup,
                   animationParticles, animationEnabled, lastOp, ticks, spawn,
                   resolved, meshes, viewer>>

\* One frame of the render loop, as far as the InteractionManager goes
InteractionFrame ==
    \E time \in FrameTimes :
        /\ BecomesWorld(interactionUpdateAnimations(World, time))
        /\ UNCHANGED <<connections, curves, connectionGroup, animationGroup,
                       animationParticles, animationEnabled, lastOp, ticks, spawn,
                       resolved, viewer>>

InteractionNext ==
    \/ MouseMove
    \/ MouseClick
    \/ Elapse
    \/ InteractionFrame

InteractionSpec == Init /\ [][InteractionNext]_vars

\* The mesh shows the given material, whatever its glow and shine at the moment
Shows(object, material) ==
    /\ Shown(World, object).color = material.color
    /\ Shown(World, object).emissive = material.emissive

NothingPending ==
    \A o \in ElementIds : interaction.materialTransitions[o] = NoTransition

\* C29: whatever the order of mouse moves, clicks and frames, once no material
\* transition is pending the selected mesh shows the selected material and every
\* mesh that is neither hovered nor selected shows the material registered for
\* it; and a selected mesh shows the selected material as long as it is selected,
\* a hover transition begun before the click notwithstanding.
C29_SelectedAndOriginalMaterials ==
    /\ NothingPending
          => /\ interaction.selectedComponent # NoObject
                   => Shows(interaction.selectedComponent, selectedMaterial)
             /\ \A o \in ElementIds :
                   (o # interaction.hoveredComponent /\ o # interaction.selectedComponent)
                       => Shows(o, MaterialOf(Element(o)))
    /\ interaction.selectedComponent # NoObject
          => Shows(interaction.selectedComponent, selectedMaterial)

\* The case of C29 in two mouse events: the hub was hovered, then clicked, and
\* with nothing pending any more it shows the hover material
C29_HoverShownOnSelected ==
    /\ Events = 2
    /\ interaction.selectedComponent = "Output Tables"
    /\ NothingPending
    /\ Shows("Output Tables", hoverMaterial)

\* Read by value rather than by colour, C29 would also ask that the registered
\* materials keep the glow and shine they were created with
C29_RegisteredMaterialsUntouched ==
    \A o \in ElementIds : interaction.originalMaterials[o] = MaterialOf(Element(o))

(***************************************************************************)
(* AxonometricViewer: hover and selection                                  *)
(***************************************************************************)
\* resetComponentState: the original material, scale 1 and the original height
viewerResetComponentState(v, component) ==
    [v EXCEPT !.material[component] = "componentMaterial",
              !.targetScales[component] = Vector3(Unit, Unit, Unit),
              !.targetPositions[component] = (3 * Unit) \div 4]

clearHoverState(v) ==
    [ (IF v.hoveredComponent # NoObject /\ v.hoveredComponent # v.selectedComponent
       THEN viewerResetComponentState(v, v.hoveredComponent)
       ELSE v)
      EXCEPT !.hoveredComponent = NoObject ]

setHoverState(v, component) ==
    [clearHoverState(v) EXCEPT
        !.hoveredComponent = component,
        !.material[component] = "hoverMaterial",
        !.targetScales[component] =
            Vector3(Scale(Unit, 115, 100), Scale(Unit, 115, 100), Scale(Unit, 115, 100)),
        !.targetPositions[component] = (3 * Unit) \div 4 + Scale(Unit, 3, 10)]

setSelectedState(v, component) ==
    [ (IF v.selectedComponent # NoObject
       THEN viewerResetComponentState(v, v.selectedComponent)
       ELSE v)
      EXCEPT
        !.selectedComponent = component,
        !.material[component] = "selectedMaterial",
        !.targetScales[component] =
            Vector3(Scale(Unit, 13, 10), Scale(Unit, 18, 10), Scale(Unit, 13, 10)),
        !.targetPositions[component] = (3 * Unit) \div 4 + Unit ]

\* A move handler that keeps hoveredComponent on the component under the pointer
\* when that component is the selected one
handleMouseMoveOntoSelected(v, component) ==
    LET at == [v EXCEPT !.mouse = component]
    IN  IF component # NoObject
        THEN IF v.hoveredComponent # component
             THEN IF component # v.selectedComponent
                  THEN setHoverState(at, component)
                  ELSE [clearHoverState(at) EXCEPT !.hoveredComponent = component]
             ELSE at
        ELSE clearHoverState(at)

\* handleMouseMove; component is intersects[0].object, NoObject if the ray from
\* this.mouse hits no component
handleMouseMove(v, component) ==
    LET at == [v EXCEPT !.mouse = component]
    IN  IF component # NoObject
        THEN IF v.hoveredComponent # component /\ component # v.selectedComponent
             THEN setHoverState(at, component)
             ELSE at
        ELSE clearHoverState(at)

\* handleMouseClick: it casts no ray, it goes by hoveredComponent
handleMouseClick(v) ==
    IF v.hoveredComponent # NoObject
    THEN setSelectedState(v, v.hoveredComponent)
    ELSE IF v.selectedComponent # NoObject
    THEN [viewerResetComponentState(v, v.selectedComponent)
            EXCEPT !.selectedComponent = NoObject]
    ELSE v

ViewerMouseMove ==
    \E component \in ViewerComponents \cup {NoObject} :
        /\ viewer' = handleMouseMove(viewer, component)
        /\ lastOp' = [op |-> "handleMouseMove", object |-> component]
        /\ UNCHANGED <<connections, curves, connectionGroup, animationGroup,
                       animationParticles, animationEnabled, ticks, spawn,
                       resolved, meshes, interaction>>

\* A click where the pointer is
ViewerMouseClick ==
    /\ viewer' = handleMouseClick(viewer)
    /\ lastOp' = [op |-> "handleMouseClick", object |-> viewer.mouse]
    /\ UNCHANGED <<connections, curves, connectionGroup, animationGroup,
                   animationParticles, animationEnabled, ticks, spawn,
                   resolved, meshes, interaction>>

ViewerNext ==
    \/ ViewerMouseMove
    \/ ViewerMouseClick

ViewerSpec == Init /\ [][ViewerNext]_vars

\* C30: after any sequence of mouse moves and clicks, a click has selected the
\* component under the pointer, or none if the pointer is over empty space; at
\* most one component shows the selected state, the selected one; and a component
\* shows the hover state only while it is under the pointer and not selected.
C30_ClickSelectsUnderPointer ==
    /\ lastOp.op = "handleMouseClick" => viewer.selectedComponent = viewer.mouse
    /\ \A c \in ViewerComponents :
          viewer.material[c] = "selectedMaterial" => c = viewer.selectedComponent
    /\ \A c \in ViewerComponents :
          viewer.material[c] = "hoverMaterial"
              => (c = viewer.mouse /\ c # viewer.selectedComponent)

\* The case of C30: with one component selected the pointer went from another
\* component onto the selected one, and the other still shows the hover state
C30_HoverLeftBehind ==
    /\ viewer.mouse = viewer.selectedComponent
    /\ viewer.mouse # NoObject
    /\ \E c \in ViewerComponents : c # viewer.mouse /\ viewer.material[c] = "hoverMaterial"

\* What does hold of the selection: only the selected component shows the
\* selected state
C30_OnlySelectedShowsSelected ==
    \A c \in ViewerComponents :
        viewer.material[c] = "selectedMaterial" => c = viewer.selectedComponent

(***************************************************************************)
(* The registry while the meshes it connects float                         *)
(***************************************************************************)
\* At most MaxMoved connections are added.
MaxMoved == 2

\* The meshes clicked: the ends of the configured connections
Clicked == {"userInterface", "businessLogic", "Output Tables"}

AddMoved ==
    \E conn \in ConfiguredConnections :
        LET time == Len(curves)
        IN  /\ Len(curves) < MaxMoved
            /\ addConnection(conn.from, conn.to, conn.options, time, "i", 0, Unit - 1)
            /\ lastOp' = CalledAdd(generateConnectionId(time, "i"), FALSE,
                                   conn.from, conn.to, conn.options)
            /\ UNCHANGED <<ticks, spawn, resolved, meshes, interaction, viewer>>

\* removeConnection with the identifier some addConnection has returned or will
RemoveMoved ==
    \E time \in 0..(MaxMoved - 1) :
        LET connectionId == generateConnectionId(time, "i")
        IN  /\ removeConnection(connectionId)
            /\ lastOp' = Called("removeConnection", connectionId,
                                connectionId \in IdsOf(connections))
            /\ UNCHANGED <<ticks, spawn, resolved, meshes, interaction, viewer>>

\* toggleAnimation; every particle it makes starts at 0 with the greatest speed
ToggleMoved ==
    /\ toggleAnimation([i \in 1..Len(connections) |-> <<0, Unit - 1>>])
    /\ lastOp' = Called("toggleAnimation", NoId, FALSE)
    /\ UNCHANGED <<ticks, spawn, resolved, meshes, interaction, viewer>>

ClickMesh ==
    \E object \in Clicked \cup {NoObject} :
        /\ BecomesWorld(onMouseClick(World, object))
        /\ lastOp' = Called("onMouseClick", NoId, FALSE)
        /\ UNCHANGED <<connections, curves, connectionGroup, animationGroup,
                       animationParticles, animationEnabled, ticks, spawn,
                       resolved, viewer>>

\* One frame of startAnimationLoop: the registry's updateAnimations, then the
\* InteractionManager's
Animate ==
    \E time \in FrameTimes :
        /\ ticks < MaxTicks
        /\ updateAnimations
        /\ BecomesWorld(interactionUpdateAnimations(World, time))
        /\ ticks' = ticks + 1
        /\ lastOp' = Called("animate", NoId, FALSE)
        /\ UNCHANGED <<spawn, resolved, viewer>>

MoveNext ==
    \/ AddMoved
    \/ RemoveMoved
    \/ ToggleMoved
    \/ SetVisible
    \/ ClickMesh
    \/ Animate

MoveSpec == Init /\ [][MoveNext]_vars

\* The curve addConnection would compute for the connection now
CurveNow(conn) ==
    createCurve(getConnectionPoint(Placed(conn.fromElement), Placed(conn.toElement)),
                getConnectionPoint(Placed(conn.toElement), Placed(conn.fromElement)),
                conn.options)

\* C25: the curve of a stored connection is computed by addConnection, from where
\* its two elements are then, and stays as it is for as long as the connection is
\* stored: through frames, setVisible, toggleAnimation, the adding and removing
\* of other connections, and through every later move of its elements.
C25_CurveComputedOnceAtAdd ==
    [][ /\ lastOp'.op = "addConnection"
              => connections'[Len(connections')].curve
                     = CurveNow(connections'[Len(connections')])
        /\ \A i \in DOMAIN connections :
              ~(lastOp'.op = "removeConnection" /\ lastOp'.id = connections[i].id)
                  => /\ \E j \in DOMAIN connections' :
                            connections'[j].id = connections[i].id
                     /\ \A j \in DOMAIN connections' :
                            connections'[j].id = connections[i].id
                                => connections'[j].curve = connections[i].curve ]_vars

\* A frame has floated an end of a stored connection, and the stored curve is not
\* the curve between the elements as they stand now
C25_Witness ==
    /\ lastOp.op = "animate"
    /\ \E i \in DOMAIN connections :
          /\ meshes[connections[i].fromElement].position
                 # Element(connections[i].fromElement).position
          /\ connections[i].curve # CurveNow(connections[i])

====
